---- MODULE Spec2Model ----
(***************************************************************************)
(* Model of the orchestration engine of the CodeRabbit MCP server: the     *)
(* rate limiter, the worker pool, the message bus, the thread state        *)
(* manager with the orchestration pipeline, and the interactive workflow   *)
(* state machine.  Each component has its own specification over the       *)
(* shared variable list; the variables of the other components stay at     *)
(* their initial values.                                                   *)
(***************************************************************************)
EXTENDS Integers, Sequences, FiniteSets, TLC

VARIABLES
  \* ---- RateLimiter (src/src/lib/state-manager.ts:420-600) ----
  rlConfig,            \* the RateLimitConfig given to the constructor
  now,                 \* Date.now(), in milliseconds
  ticks,               \* number of clock advances so far (bounds the run)
  requestTimestamps,   \* this.requestTimestamps (sequence of ms)
  concurrentRequests,  \* this.concurrentRequests
  backoffUntil,        \* this.backoffUntil
  consecutiveErrors,   \* this.consecutiveErrors
  acquireGuard,        \* this.acquireGuard
  rlPc,                \* per caller: position inside acquire()/waitForLimit()
  rlWake,              \* per caller: time at which its setTimeout is due
  rlCheck,             \* per caller: did its guarded checkLimit() allow the request
  rlCalls,             \* number of acquire() calls issued so far
  rlReserved,          \* history: every reservation timestamp ever recorded
  rlFailStreak,        \* history: endRequest(false) calls since the last endRequest(true)
  rlLastEnd,           \* history: what the last endRequest() call did
  \* ---- WorkerPool (src/src/lib/worker-pool.ts) ----
  available,           \* this.available (sequence of workers)
  busy,                \* this.busy (set of workers)
  waiting,             \* this.waiting (sequence of pending acquire() calls, by caller)
  poolHeld,            \* per caller: the worker its acquire() resolved with, or NoWorker
  poolTicket,          \* per caller: the number of its outstanding acquire() call, or 0
  poolAcquires,        \* number of acquire() calls issued so far
  poolImmediate,       \* history: the calls that returned a worker without waiting
  poolGrantOrder,      \* history: the calls in the order in which they obtained a worker
  poolReleases,        \* history: number of release() calls of a busy worker
  poolHandoffs,        \* history: number of waiters served by release()
  poolLastOp,          \* history: the latest pool operation
  poolCancelled,       \* history: tickets of the acquire() calls reset() rejected
  poolLastReset,       \* history: busy and waiting as the latest reset() found them
  poolDrain,           \* position of the drain() call: idle, sleeping, returned, threw
  poolDrainSaw,        \* history: the pool as the deciding check of drain() saw it
  \* ---- MessageBus (src/src/lib/message-bus.ts) ----
  messageLog,          \* this.messageLog (sequence of messages)
  pendingResponses,    \* keys of this.pendingResponses (request message ids)
  busListeners,        \* per response channel: the requests whose responseHandler is registered
  busTimers,           \* the requests whose timeout timer is armed
  busNextId,           \* the next message id uuidv4() hands out
  busRequests,         \* per request id: source, promise status and history of its handler
  busSubscribers,      \* per agent channel: the listeners registered by subscribe(), in order
  busErrorEvents,      \* 'error' events emitted on the bus (logged by its error listener)
  busRejections,       \* subscribe() listeners awaiting a handler promise that rejects
  busFailures,         \* handler invocations that threw or rejected
  busSendRaised,       \* a send() call raised to its caller
  \* ---- WorkflowStateManager and the workflow tool handlers ----
  wfExists,            \* a WorkflowState is stored for the (repo, PR) key
  wfThreads,           \* state.threads: per thread, whether it shows a self-correction
  currentIndex,        \* state.currentIndex
  processed,           \* state.processed
  decisions,           \* state.decisions: per thread id a decision or NoDecision
  wfOps,               \* number of workflow tool calls so far
  wfLastOp,            \* history: the last workflow tool called
  wfReport,            \* history: the current_step it returned, or "error" if it threw
  wfCommits,           \* working copy: commits the workflow tools made
  wfPushes,            \* remote branch: pushes the workflow tools made
  wfResolves,          \* remote service: threads the workflow tools resolved
  \* ---- StateManager and the orchestration pipeline ----
  threadStates,        \* StateManager.state: per thread id a ThreadState or NoThreadState
  remoteOpen,          \* remote service: the bot's unresolved review threads
  pipePc,              \* position of run()/runIteration()
  pipeArgs,            \* arguments of run(): maxIterations, dryRun, validationMode
  prMeta,              \* what the pre-flight getPRMeta() of the run found
  iteration,           \* loop variable of run()
  batch,               \* codeRabbitThreads fetched by the current iteration
  analysis,            \* per thread of the batch: outcome of its analysis task
  commitSha,           \* commit pushed by the current iteration, 0 if none
  ciResult,            \* what waitForCI returned in the current iteration
  commits,             \* remote branch: commits pushed so far
  reverted,            \* remote branch: commits reverted so far
  iterResult,          \* result of the current runIteration()
  runResult,           \* result of run()
  iterationsRun,       \* number of runIteration() calls that returned
  iterCalls,           \* history of the current iteration: remote calls made, per thread
  polling,             \* MonitorAgent.pollingIntervals has a timer for the PR
  workTree,            \* working copy: patches written to files and not yet committed
  commitFiles,         \* remote branch: the patches each pushed commit contains
  \* ---- GitHubAPIAgent: the review-API client in front of the RateLimiter ----
  clVariant,           \* which postComment() the build carries: "waitForLimit" or "acquire"
  clKind,              \* per caller: the client method in progress, or "none"
  clInFlight,          \* per caller: its remote request is issued and unanswered
  clCalls,             \* history: calls of the methods other than postComment()
  clIssued,            \* history: the latest remote request, and the limiter as it left
  clDone,              \* history: the latest finished call, and whether it told the limiter
  clFailure,           \* history: the latest failure that carried a retry-after signal
  \* ---- StateManager: the mutex and the listeners ----
  smHolders,           \* Mutex: the calls that hold the lock
  smQueue,             \* Mutex: the calls waiting for the lock, oldest first
  smOp,                \* per caller: its StateManager call in progress, or NoOp
  smListeners,         \* StateManager.listeners: per thread its callbacks, oldest first
  smCalls,             \* history: StateManager calls issued
  smMarked,            \* history: per thread the markThreadsAsProcessing calls completed
  smOverlap,           \* history: a call was issued while another was in progress
  smNotified,          \* history: the latest round of listener notifications
  ciVariant,           \* which waitForCheckRuns() of the sources runs
  ciPc,                \* position of the waitForCheckRuns() call
  ciMaxAttempts,       \* its maxAttempts argument
  ciAttempt,           \* its loop counter
  hasChecks,           \* its flag: check runs were seen
  ciSeen,              \* history: what each checks.listForRef() returned
  ciOutcome,           \* what the call returned
  fanState             \* per analysis task of the fan-out: idle, queued or running

rlVars == <<rlConfig, now, ticks, requestTimestamps, concurrentRequests,
            backoffUntil, consecutiveErrors, acquireGuard, rlPc, rlWake,
            rlCheck, rlCalls, rlReserved, rlFailStreak, rlLastEnd>>

poolVars == <<available, busy, waiting, poolHeld, poolTicket, poolAcquires,
              poolImmediate, poolGrantOrder, poolReleases, poolHandoffs,
             poolLastOp, poolCancelled, poolLastReset, poolDrain, poolDrainSaw>>

busSubVars == <<busSubscribers, busErrorEvents, busRejections, busFailures,
                busSendRaised>>

busVars == <<messageLog, pendingResponses, busListeners, busTimers, busNextId,
             busRequests, busSubVars>>

wfVars == <<wfExists, wfThreads, currentIndex, processed, decisions, wfOps,
            wfLastOp, wfReport, wfCommits, wfPushes, wfResolves>>

pipeVars == <<threadStates, remoteOpen, pipePc, pipeArgs, prMeta, iteration, batch,
              analysis, commitSha, ciResult, commits, reverted, iterResult,
              runResult, iterationsRun, iterCalls, polling, workTree, commitFiles>>

clVars == <<clVariant, clKind, clInFlight, clCalls, clIssued, clDone, clFailure>>

smVars == <<smHolders, smQueue, smOp, smListeners, smCalls, smMarked, smOverlap,
            smNotified>>

\* The variables of the pipeline other than the thread-state map.
pipeRunVars == <<remoteOpen, pipePc, pipeArgs, prMeta, iteration, batch, analysis, commitSha,
                 ciResult, commits, reverted, iterResult, runResult, iterationsRun,
                 iterCalls, polling, workTree, commitFiles>>

fanVars == <<fanState>>

ciVars == <<ciVariant, ciPc, ciMaxAttempts, ciAttempt, hasChecks, ciSeen, ciOutcome>>

vars == <<rlVars, poolVars, busVars, wfVars, pipeVars, clVars, smVars, ciVars, fanVars>>

(***************************************************************************)
(* Bounds of the model.                                                    *)
(***************************************************************************)
MaxAcquires == 3     \* acquire() calls issued in one run
MaxTicks == 2        \* clock advances in one run
MaxPoolAcquires == 5 \* acquire() calls issued to the worker pool in one run
MaxBusMessages == 5  \* messages created on the bus in one run
MaxWfThreads == 2    \* review threads loaded by one workflow start
MaxWfOps == 5        \* workflow tool calls in one run
MaxIterations == 2   \* largest maxIterations passed to run()
MaxClientCalls == 1  \* client calls other than postComment() in one run
MaxSmCalls == 3      \* StateManager calls in one run
MaxCiAttempts == 3   \* largest maxAttempts passed to waitForCheckRuns()

(***************************************************************************)
(* Helpers.                                                                *)
(***************************************************************************)
Min(a, b) == IF a <= b THEN a ELSE b

Max(a, b) == IF a >= b THEN a ELSE b

RECURSIVE Pow(_, _)
Pow(b, e) == IF e = 0 THEN 1 ELSE b * Pow(b, e - 1)

SeqMin(s) == CHOOSE x \in {s[i] : i \in 1..Len(s)} : \A j \in 1..Len(s) : x <= s[j]

(***************************************************************************)
(* RateLimiter                                                             *)
(***************************************************************************)
HourMs == 3600000
MinuteMs == 60000
ConcurrencyWaitMs == 1000
BackoffBaseMs == 1000
GuardRetryMs == 10
ReserveRetryMs == 25

\* The concurrent callers of the rate limiter.
RLCallers == {1, 2}

\* Clock advances offered to the model: the concurrency wait (which also
\* lets the 10 ms and 25 ms retry timers of acquire() fire), the minute window
\* and the hour window.
TickSizes == {ConcurrencyWaitMs, MinuteMs, HourMs}

\* Retry-after signals offered to handleRateLimitError().
RetryAfterMinutes == {1}

RetryAfterSeconds == {5}

\* Configurations accepted by the constructor (all bounds > 0, multiplier >= 1).
ValidRateLimitConfig(c) ==
  /\ c.maxRequestsPerHour > 0
  /\ c.maxRequestsPerMinute > 0
  /\ c.maxConcurrent > 0
  /\ c.backoffMultiplier >= 1
  /\ c.maxBackoffMs > 0

RLConfigs ==
  { c \in [maxRequestsPerHour : {2, 3}, maxRequestsPerMinute : {1, 2},
           maxConcurrent : {1, 2}, backoffMultiplier : {2},
           maxBackoffMs : {5000}] :
      /\ ValidRateLimitConfig(c)
      /\ c.maxRequestsPerMinute <= c.maxConcurrent
      /\ c.maxRequestsPerHour = c.maxRequestsPerMinute + 1 }

InLastHour(ts, n) == SelectSeq(ts, LAMBDA t : t > n - HourMs)

InLastMinute(ts, n) == SelectSeq(ts, LAMBDA t : t > n - MinuteMs)

\* checkLimit(): which constraint is violated first, at time n.
CheckReason(n) ==
  IF backoffUntil > n THEN "backoff"
  ELSE IF concurrentRequests >= rlConfig.maxConcurrent THEN "concurrent"
  ELSE IF Len(InLastHour(requestTimestamps, n)) >= rlConfig.maxRequestsPerHour THEN "hour"
  ELSE IF Len(InLastMinute(InLastHour(requestTimestamps, n), n)) >= rlConfig.maxRequestsPerMinute
       THEN "minute"
  ELSE "allowed"

\* checkLimit(): the {allowed, waitMs} it returns at time n.
CheckLimit(n) ==
  LET r == CheckReason(n)
      hour == InLastHour(requestTimestamps, n)
  IN  [allowed |-> (r = "allowed"),
       reason  |-> r,
       waitMs  |-> CASE r = "backoff"    -> backoffUntil - n
                     [] r = "concurrent" -> ConcurrencyWaitMs
                     [] r = "hour"       -> SeqMin(hour) + HourMs - n
                     [] r = "minute"     -> SeqMin(InLastMinute(hour, n)) + MinuteMs - n
                     [] OTHER            -> 0]

\* checkLimit() prunes requestTimestamps once it is past the backoff and
\* concurrency checks.
CheckLimitTimestamps(n) ==
  IF CheckReason(n) \in {"backoff", "concurrent"}
  THEN requestTimestamps
  ELSE InLastHour(requestTimestamps, n)

NoEnd == [success |-> TRUE, streak |-> 0, at |-> 0, until |-> 0, errors |-> 0, resets |-> 0]

\* The configuration the review-API client falls back to.
DefaultRateLimitConfig ==
  [maxRequestsPerHour |-> 50, maxRequestsPerMinute |-> 10, maxConcurrent |-> 3,
   backoffMultiplier |-> 2, maxBackoffMs |-> 300000]

\* The state after new RateLimiter(config).
RLInit(configs) ==
  /\ rlConfig \in configs
  /\ now = 0
  /\ ticks = 0
  /\ requestTimestamps = <<>>
  /\ concurrentRequests = 0
  /\ backoffUntil = 0
  /\ consecutiveErrors = 0
  /\ acquireGuard = FALSE
  /\ rlPc = [p \in RLCallers |-> "idle"]
  /\ rlWake = [p \in RLCallers |-> 0]
  /\ rlCheck = [p \in RLCallers |-> FALSE]
  /\ rlCalls = 0
  /\ rlReserved = <<>>
  /\ rlFailStreak = 0
  /\ rlLastEnd = NoEnd

\* One pass of the loop of waitForLimit(): checkLimit() runs to completion
\* (pruning the timestamps as it goes); when it allows the request,
\* waitForLimit() returns and acquire() resumes in a later turn, otherwise
\* waitForLimit() sleeps for waitMs and checks again.
WaitForLimitPass(p) ==
  /\ requestTimestamps' = CheckLimitTimestamps(now)
  /\ IF CheckLimit(now).allowed
     THEN /\ rlPc' = [rlPc EXCEPT ![p] = "acqResume"]
          /\ rlWake' = [rlWake EXCEPT ![p] = 0]
     ELSE /\ rlPc' = [rlPc EXCEPT ![p] = "wflSleep"]
          /\ rlWake' = [rlWake EXCEPT ![p] = now + CheckLimit(now).waitMs]

\* acquire() is called: the first loop iteration enters waitForLimit().
AcquireCall(p) ==
  /\ rlPc[p] = "idle"
  /\ rlCalls < MaxAcquires
  /\ rlCalls' = rlCalls + 1
  /\ WaitForLimitPass(p)
  /\ UNCHANGED <<rlConfig, now, ticks, concurrentRequests, backoffUntil,
                 consecutiveErrors, acquireGuard, rlCheck, rlReserved,
                 rlFailStreak, rlLastEnd>>

\* A timer of acquire()/waitForLimit() fires (the waitMs sleep, the 10 ms
\* guard retry or the 25 ms reservation retry): the loop calls checkLimit()
\* inside waitForLimit() again.
TimerFires(p) ==
  /\ rlPc[p] \in {"wflSleep", "guardSleep", "retrySleep"}
  /\ now >= rlWake[p]
  /\ WaitForLimitPass(p)
  /\ UNCHANGED <<rlConfig, now, ticks, concurrentRequests, backoffUntil,
                 consecutiveErrors, acquireGuard, rlCheck, rlCalls, rlReserved,
                 rlFailStreak, rlLastEnd>>

\* acquire() resumes after waitForLimit(): it backs off 10 ms when another
\* caller holds the guard, otherwise it takes the guard and calls
\* checkLimit() again, suspending on the await of its result.
AcquireResume(p) ==
  /\ rlPc[p] = "acqResume"
  /\ IF acquireGuard
     THEN /\ rlPc' = [rlPc EXCEPT ![p] = "guardSleep"]
          /\ rlWake' = [rlWake EXCEPT ![p] = now + GuardRetryMs]
          /\ UNCHANGED <<acquireGuard, rlCheck, requestTimestamps>>
     ELSE /\ acquireGuard' = TRUE
          /\ rlCheck' = [rlCheck EXCEPT ![p] = CheckLimit(now).allowed]
          /\ requestTimestamps' = CheckLimitTimestamps(now)
          /\ rlPc' = [rlPc EXCEPT ![p] = "guardAwait"]
          /\ UNCHANGED rlWake
  /\ UNCHANGED <<rlConfig, now, ticks, concurrentRequests, backoffUntil,
                 consecutiveErrors, rlCalls, rlReserved, rlFailStreak, rlLastEnd>>

\* A reservation that ignores the guarded check.
ReserveAllowedUnchecked(check) == TRUE

\* May the holder of the guard reserve, given its guarded checkLimit() result?
ReserveAllowed(check) == check

\* The timestamps kept by the reservation (ts >= oneHourAgo) plus the new one.
ReserveTimestamps(n) ==
  Append(SelectSeq(requestTimestamps, LAMBDA t : t >= n - HourMs), n)

\* acquire() resumes inside the guard: it records the reservation when the
\* guarded check allowed it, otherwise it retries after 25 ms; the finally
\* block drops the guard on both paths.
ReserveResume(p) ==
  /\ rlPc[p] = "guardAwait"
  /\ acquireGuard' = FALSE
  /\ rlCheck' = [rlCheck EXCEPT ![p] = FALSE]
  /\ IF ReserveAllowed(rlCheck[p])
     THEN /\ requestTimestamps' = ReserveTimestamps(now)
          /\ concurrentRequests' = concurrentRequests + 1
          /\ rlReserved' = Append(rlReserved, now)
          /\ rlPc' = [rlPc EXCEPT ![p] = "holding"]
          /\ UNCHANGED rlWake
     ELSE /\ rlPc' = [rlPc EXCEPT ![p] = "retrySleep"]
          /\ rlWake' = [rlWake EXCEPT ![p] = now + ReserveRetryMs]
          /\ UNCHANGED <<requestTimestamps, concurrentRequests, rlReserved>>
  /\ UNCHANGED <<rlConfig, now, ticks, backoffUntil, consecutiveErrors,
                 rlCalls, rlFailStreak, rlLastEnd>>

\* The backoff computed by endRequest(false) after `errors` consecutive errors.
BackoffMs(errors) ==
  Min(rlConfig.maxBackoffMs, BackoffBaseMs * Pow(rlConfig.backoffMultiplier, errors))

\* An endRequest() whose success path leaves the error counter alone.
ErrorsAfterEndNoReset(success) == IF success THEN consecutiveErrors ELSE consecutiveErrors + 1

\* consecutiveErrors after endRequest(success).
ErrorsAfterEnd(success) == IF success THEN 0 ELSE consecutiveErrors + 1

\* endRequest(success), called by a caller that holds a reservation.
EndRequest(p, success) ==
  /\ rlPc[p] = "holding"
  /\ concurrentRequests' = Max(0, concurrentRequests - 1)
  /\ consecutiveErrors' = ErrorsAfterEnd(success)
  /\ backoffUntil' = IF success THEN backoffUntil
                     ELSE now + BackoffMs(consecutiveErrors')
  /\ rlFailStreak' = IF success THEN 0 ELSE rlFailStreak + 1
  /\ rlLastEnd' = [success |-> success, streak |-> rlFailStreak', at |-> now,
                   until |-> backoffUntil', errors |-> consecutiveErrors',
                   resets |-> IF success /\ rlFailStreak > 0
                              THEN rlLastEnd.resets + 1 ELSE rlLastEnd.resets]
  /\ rlPc' = [rlPc EXCEPT ![p] = "idle"]
  /\ UNCHANGED <<rlConfig, now, ticks, requestTimestamps, acquireGuard,
                 rlWake, rlCheck, rlCalls, rlReserved>>

\* handleRateLimitError(minutes, seconds), called by a caller whose request
\* failed with an explicit retry-after signal.
HandleRateLimitError(p, minutes, seconds) ==
  /\ rlPc[p] = "holding"
  /\ backoffUntil' = now + (minutes * 60 + seconds) * 1000
  /\ UNCHANGED <<rlConfig, now, ticks, requestTimestamps, concurrentRequests,
                 consecutiveErrors, acquireGuard, rlPc, rlWake, rlCheck,
                 rlCalls, rlReserved, rlFailStreak, rlLastEnd>>

\* Date.now() advances.
Tick(d) ==
  /\ ticks < MaxTicks
  /\ ticks' = ticks + 1
  /\ now' = now + d
  /\ UNCHANGED <<rlConfig, requestTimestamps, concurrentRequests, backoffUntil,
                 consecutiveErrors, acquireGuard, rlPc, rlWake, rlCheck,
                 rlCalls, rlReserved, rlFailStreak, rlLastEnd>>

RLNext ==
  \/ \E p \in RLCallers : AcquireCall(p)
  \/ \E p \in RLCallers : TimerFires(p)
  \/ \E p \in RLCallers : AcquireResume(p)
  \/ \E p \in RLCallers : ReserveResume(p)
  \/ \E p \in RLCallers, success \in BOOLEAN : EndRequest(p, success)
  \/ \E p \in RLCallers, m \in RetryAfterMinutes, s \in RetryAfterSeconds : HandleRateLimitError(p, m, s)
  \/ \E d \in TickSizes : Tick(d)

(***************************************************************************)
(* GitHubAPIAgent: remote calls and the rate limiter                       *)
(***************************************************************************)
\* The client methods that talk to the remote service.
ClientMethods == {"getPRMeta", "listReviewThreads", "postComment", "resolveThread",
                  "waitForCheckRuns"}

\* The methods whose body never touches this.rateLimiter.
DirectMethods == ClientMethods \ {"postComment"}

\* The two postComment() bodies: waitForLimit() + startRequest() with
\* endRequest() before handleRateLimitError(), and acquire() with
\* handleRateLimitError() before the endRequest() of the finally block.
ClientVariants == {"waitForLimit", "acquire"}

\* The retry-after signals "wait m minutes and s seconds" of the remote service.
SignalMinutes == {0, 1}

SignalSeconds == {3}

\* The limits the client is configured with here: the tightest of RLConfigs,
\* one request at a time and one per minute.
ClientRateLimitConfig == CHOOSE c \in RLConfigs : c.maxConcurrent = 1

NoIssued == [kind |-> "none", reserved |-> FALSE, open |-> FALSE]

NoDone == [kind |-> "none", reported |-> FALSE]

NoFailure == [signalled |-> FALSE, at |-> 0, minutes |-> 0, seconds |-> 0, until |-> 0]

ClientInit(variants) ==
  /\ clVariant \in variants
  /\ clKind = [p \in RLCallers |-> "none"]
  /\ clInFlight = [p \in RLCallers |-> FALSE]
  /\ clCalls = 0
  /\ clIssued = NoIssued
  /\ clDone = NoDone
  /\ clFailure = NoFailure

\* The limiter has room for a request at the moment it goes out: no backoff
\* window, and the concurrency and window counts within their limits, the
\* request itself counted (it already is when it holds a reservation).
LimiterOpen(reserved) ==
  IF reserved
  THEN /\ backoffUntil <= now
       /\ concurrentRequests <= rlConfig.maxConcurrent
       /\ Len(InLastHour(requestTimestamps, now)) <= rlConfig.maxRequestsPerHour
       /\ Len(InLastMinute(InLastHour(requestTimestamps, now), now))
            <= rlConfig.maxRequestsPerMinute
  ELSE CheckReason(now) = "allowed"

\* postComment() is called: both bodies first enter the loop of waitForLimit().
ClPostComment(p) ==
  /\ clKind[p] = "none"
  /\ clKind' = [clKind EXCEPT ![p] = "postComment"]
  /\ AcquireCall(p)
  /\ UNCHANGED <<clVariant, clInFlight, clCalls, clIssued, clDone, clFailure>>

\* A sleep of the postComment() in progress ends, or its acquire() goes on.
ClWait(p) ==
  /\ clKind[p] = "postComment"
  /\ \/ TimerFires(p)
     \/ clVariant = "acquire" /\ (AcquireResume(p) \/ ReserveResume(p))
  /\ UNCHANGED clVars

\* waitForLimit() returned: startRequest() records the request and the
\* mutation goes out in the same turn.
ClStartRequest(p) ==
  /\ clVariant = "waitForLimit"
  /\ clKind[p] = "postComment"
  /\ rlPc[p] = "acqResume"
  /\ requestTimestamps' = Append(requestTimestamps, now)
  /\ concurrentRequests' = concurrentRequests + 1
  /\ rlReserved' = Append(rlReserved, now)
  /\ rlPc' = [rlPc EXCEPT ![p] = "holding"]
  /\ UNCHANGED <<rlConfig, now, ticks, backoffUntil, consecutiveErrors, acquireGuard,
                 rlWake, rlCheck, rlCalls, rlFailStreak, rlLastEnd>>
  /\ clInFlight' = [clInFlight EXCEPT ![p] = TRUE]
  /\ clIssued' = [kind |-> "postComment", reserved |-> TRUE, open |-> LimiterOpen(TRUE)']
  /\ UNCHANGED <<clVariant, clKind, clCalls, clDone, clFailure>>

\* acquire() returned with the reservation: the mutation goes out.
ClIssue(p) ==
  /\ clVariant = "acquire"
  /\ clKind[p] = "postComment"
  /\ rlPc[p] = "holding"
  /\ ~clInFlight[p]
  /\ clInFlight' = [clInFlight EXCEPT ![p] = TRUE]
  /\ clIssued' = [kind |-> "postComment", reserved |-> TRUE, open |-> LimiterOpen(TRUE)]
  /\ UNCHANGED rlVars
  /\ UNCHANGED <<clVariant, clKind, clCalls, clDone, clFailure>>

\* The mutation of postComment() returns, or fails without a retry-after
\* signal: endRequest(ok).
ClRespond(p, ok) ==
  /\ clKind[p] = "postComment"
  /\ clInFlight[p]
  /\ EndRequest(p, ok)
  /\ clKind' = [clKind EXCEPT ![p] = "none"]
  /\ clInFlight' = [clInFlight EXCEPT ![p] = FALSE]
  /\ clDone' = [kind |-> "postComment", reported |-> TRUE]
  /\ UNCHANGED <<clVariant, clCalls, clIssued, clFailure>>

\* backoffUntil after a failure with a retry-after signal has been handled:
\* the later of endRequest(false) and handleRateLimitError() wins.
BackoffAfterSignal(variant, minutes, seconds, errors) ==
  IF variant = "waitForLimit"
  THEN now + (minutes * 60 + seconds) * 1000
  ELSE now + BackoffMs(errors)

\* The mutation of postComment() fails with "wait m minutes and s seconds":
\* the catch block (and the finally block of the acquire() body) run in one
\* turn, then the error is rethrown.
ClRateLimited(p, minutes, seconds) ==
  /\ clKind[p] = "postComment"
  /\ clInFlight[p]
  /\ concurrentRequests' = Max(0, concurrentRequests - 1)
  /\ consecutiveErrors' = ErrorsAfterEnd(FALSE)
  /\ backoffUntil' = BackoffAfterSignal(clVariant, minutes, seconds, consecutiveErrors')
  /\ rlFailStreak' = rlFailStreak + 1
  /\ rlLastEnd' = [success |-> FALSE, streak |-> rlFailStreak', at |-> now,
                   until |-> backoffUntil', errors |-> consecutiveErrors',
                   resets |-> rlLastEnd.resets]
  /\ rlPc' = [rlPc EXCEPT ![p] = "idle"]
  /\ clKind' = [clKind EXCEPT ![p] = "none"]
  /\ clInFlight' = [clInFlight EXCEPT ![p] = FALSE]
  /\ clDone' = [kind |-> "postComment", reported |-> TRUE]
  /\ clFailure' = [signalled |-> TRUE, at |-> now, minutes |-> minutes,
                   seconds |-> seconds, until |-> backoffUntil']
  /\ UNCHANGED <<rlConfig, now, ticks, requestTimestamps, acquireGuard, rlWake,
                 rlCheck, rlCalls, rlReserved>>
  /\ UNCHANGED <<clVariant, clCalls, clIssued>>

\* getPRMeta(), listReviewThreads(), resolveThread() or waitForCheckRuns() is
\* called: the request goes out at once.
ClDirectCall(p, method) ==
  /\ clKind[p] = "none"
  /\ rlPc[p] = "idle"
  /\ clCalls < MaxClientCalls
  /\ clCalls' = clCalls + 1
  /\ clKind' = [clKind EXCEPT ![p] = method]
  /\ clInFlight' = [clInFlight EXCEPT ![p] = TRUE]
  /\ clIssued' = [kind |-> method, reserved |-> FALSE, open |-> LimiterOpen(FALSE)]
  /\ UNCHANGED rlVars
  /\ UNCHANGED <<clVariant, clDone, clFailure>>

\* The request of one of those methods returns or fails: the method returns or
\* throws.
ClDirectReturn(p) ==
  /\ clKind[p] \in DirectMethods
  /\ clInFlight[p]
  /\ clKind' = [clKind EXCEPT ![p] = "none"]
  /\ clInFlight' = [clInFlight EXCEPT ![p] = FALSE]
  /\ clDone' = [kind |-> clKind[p], reported |-> FALSE]
  /\ UNCHANGED rlVars
  /\ UNCHANGED <<clVariant, clCalls, clIssued, clFailure>>

ClientNext ==
  \/ \E p \in RLCallers : ClPostComment(p)
  \/ \E p \in RLCallers : ClWait(p)
  \/ \E p \in RLCallers : ClStartRequest(p)
  \/ \E p \in RLCallers : ClIssue(p)
  \/ \E p \in RLCallers, ok \in BOOLEAN : ClRespond(p, ok)
  \/ \E p \in RLCallers, m \in SignalMinutes, s \in SignalSeconds : ClRateLimited(p, m, s)
  \/ \E p \in RLCallers, method \in DirectMethods : ClDirectCall(p, method)
  \/ \E p \in RLCallers : ClDirectReturn(p)
  \/ \E d \in TickSizes : Tick(d) /\ UNCHANGED clVars

(***************************************************************************)
(* WorkerPool                                                              *)
(***************************************************************************)
\* The workers handed to the constructor, and the callers of the pool.
Workers == {"w1", "w2"}

PoolCallers == {1, 2, 3, 4}

NoWorker == "none"

PoolSize == Cardinality(Workers)

NoReset == [busy |-> {}, waiting |-> <<>>]

NoDrainSaw == [total |-> 0, busy |-> 0, waiting |-> 0]

\* The worker lists a pool is constructed with: the analyzers, or none.
WorkerLists == {<<"w1", "w2">>, <<>>}

\* The state after new WorkerPool(workers): available is a copy of the list.
PoolInitWith(lists) ==
  /\ available \in lists
  /\ busy = {}
  /\ waiting = <<>>
  /\ poolHeld = [c \in PoolCallers |-> NoWorker]
  /\ poolTicket = [c \in PoolCallers |-> 0]
  /\ poolAcquires = 0
  /\ poolImmediate = {}
  /\ poolGrantOrder = <<>>
  /\ poolReleases = 0
  /\ poolHandoffs = 0
  /\ poolLastOp = "none"
  /\ poolCancelled = {}
  /\ poolLastReset = NoReset
  /\ poolDrain = "idle"
  /\ poolDrainSaw = NoDrainSaw

\* The pool of the configured analyzers.
PoolInit == PoolInitWith({<<"w1", "w2">>})

\* What an acquire() or release() leaves alone.
PoolOp(op) ==
  /\ poolLastOp' = op
  /\ UNCHANGED <<poolCancelled, poolLastReset, poolDrain, poolDrainSaw>>

\* An acquire() that reads the first available worker without removing it.
ShiftAvailableKeeps(workers) == workers

\* What available.shift() leaves in available.
ShiftAvailable(workers) == Tail(workers)

\* acquire(): a worker is available and is returned at once.
AcquireAvailable(c) ==
  /\ poolHeld[c] = NoWorker
  /\ poolTicket[c] = 0
  /\ poolAcquires < MaxPoolAcquires
  /\ Len(available) > 0
  /\ available' = ShiftAvailable(available)
  /\ busy' = busy \cup {Head(available)}
  /\ poolHeld' = [poolHeld EXCEPT ![c] = Head(available)]
  /\ poolAcquires' = poolAcquires + 1
  /\ poolImmediate' = poolImmediate \cup {poolAcquires'}
  /\ poolGrantOrder' = Append(poolGrantOrder, poolAcquires')
  /\ PoolOp("acquire")
  /\ UNCHANGED <<waiting, poolTicket, poolReleases, poolHandoffs>>

\* acquire(): no worker is available; the call is queued and suspends.
AcquireWait(c) ==
  /\ poolHeld[c] = NoWorker
  /\ poolTicket[c] = 0
  /\ poolAcquires < MaxPoolAcquires
  /\ Len(available) = 0
  /\ waiting' = Append(waiting, c)
  /\ poolAcquires' = poolAcquires + 1
  /\ poolTicket' = [poolTicket EXCEPT ![c] = poolAcquires']
  /\ PoolOp("acquire")
  /\ UNCHANGED <<available, busy, poolHeld, poolImmediate, poolGrantOrder,
                 poolReleases, poolHandoffs>>

\* A release() that serves the newest waiter (pop) instead of the oldest.
ServeNewestWaiter(w) == [waiter |-> w[Len(w)], rest |-> SubSeq(w, 1, Len(w) - 1)]

\* waiting.shift(): the waiter that release() serves and the queue it leaves.
ServeWaiter(w) == [waiter |-> Head(w), rest |-> Tail(w)]

\* A release() that never looks at the waiting list.
HasWaiterNever(w) == FALSE

\* `if (this.waiting.length > 0)` of release().
HasWaiter(w) == Len(w) > 0

\* release(worker) by the caller that holds it: a no-op when the worker is not
\* busy; otherwise the worker goes to the next waiter, or back to available.
Release(c) ==
  /\ poolHeld[c] # NoWorker
  /\ LET worker == poolHeld[c] IN
       IF worker \notin busy
       THEN /\ poolHeld' = [poolHeld EXCEPT ![c] = NoWorker]
            /\ UNCHANGED <<available, busy, waiting, poolTicket, poolGrantOrder,
                           poolReleases, poolHandoffs>>
       ELSE /\ poolReleases' = poolReleases + 1
            /\ IF HasWaiter(waiting)
               THEN LET waiter == ServeWaiter(waiting).waiter IN
                    /\ waiting' = ServeWaiter(waiting).rest
                    /\ busy' = (busy \ {worker}) \cup {worker}
                    /\ poolHeld' = [poolHeld EXCEPT ![c] = NoWorker, ![waiter] = worker]
                    /\ poolGrantOrder' = Append(poolGrantOrder, poolTicket[waiter])
                    /\ poolTicket' = [poolTicket EXCEPT ![waiter] = 0]
                    /\ poolHandoffs' = poolHandoffs + 1
                    /\ UNCHANGED available
               ELSE /\ busy' = busy \ {worker}
                    /\ available' = Append(available, worker)
                    /\ poolHeld' = [poolHeld EXCEPT ![c] = NoWorker]
                    /\ UNCHANGED <<waiting, poolTicket, poolGrantOrder, poolHandoffs>>
  /\ PoolOp("release")
  /\ UNCHANGED <<poolAcquires, poolImmediate>>

\* The tickets of the calls in a waiting list, oldest first.
Tickets(w) == [i \in 1..Len(w) |-> poolTicket[w[i]]]

\* A reset() that forgets the waiting list without rejecting its promises.
RejectedByResetNone(w) == {}

\* The waiting acquire() calls whose promise reset() rejects.
RejectedByReset(w) == {w[i] : i \in 1..Len(w)}

\* The orders in which a loop over the Set busy can visit its workers.
Orderings(S) ==
  {q \in [1..Cardinality(S) -> S] : \A w \in S : \E i \in 1..Cardinality(S) : q[i] = w}

\* reset(): every busy worker is pushed back to available, busy is cleared,
\* every waiting acquire() is rejected and the waiting list emptied. The
\* callers that held a worker keep their reference to it.
Reset(order) ==
  /\ available' = available \o order
  /\ busy' = {}
  /\ waiting' = <<>>
  /\ poolTicket' = [c \in PoolCallers |->
                      IF c \in RejectedByReset(waiting) THEN 0 ELSE poolTicket[c]]
  /\ poolCancelled' = poolCancelled \cup {poolTicket[c] : c \in RejectedByReset(waiting)}
  /\ poolLastReset' = [busy |-> busy, waiting |-> Tickets(waiting)]
  /\ poolLastOp' = "reset"
  /\ UNCHANGED <<poolHeld, poolAcquires, poolImmediate, poolGrantOrder, poolReleases,
                 poolHandoffs, poolDrain, poolDrainSaw>>

\* A drain() loop without the fast-fail check.
DrainOutcomeNoFastFail(total, nBusy, nWaiting) ==
  IF nBusy = 0 /\ nWaiting = 0 THEN "returned" ELSE "sleeping"

\* What one pass of the loop of drain() does: it returns when busy and
\* waiting are empty, throws when waiters exist and the pool has no worker at
\* all, and otherwise sleeps 100 ms before the next pass.
DrainOutcome(total, nBusy, nWaiting) ==
  IF nBusy = 0 /\ nWaiting = 0 THEN "returned"
  ELSE IF total = 0 /\ nWaiting > 0 THEN "threw"
  ELSE "sleeping"

\* One pass of the loop of drain().
DrainPass ==
  LET total == Len(available) + Cardinality(busy)
      saw == [total |-> total, busy |-> Cardinality(busy), waiting |-> Len(waiting)]
  IN  /\ poolDrain' = DrainOutcome(total, Cardinality(busy), Len(waiting))
      /\ poolDrainSaw' = IF poolDrain' = "sleeping" THEN poolDrainSaw ELSE saw
      /\ poolLastOp' = "drain"
      /\ UNCHANGED <<available, busy, waiting, poolHeld, poolTicket, poolAcquires,
                     poolImmediate, poolGrantOrder, poolReleases, poolHandoffs,
                     poolCancelled, poolLastReset>>

\* drain() is called: the first pass runs at once.
DrainCall ==
  /\ poolDrain \in {"idle", "returned", "threw"}
  /\ DrainPass

\* The 100 ms timer of drain() fires: the next pass.
DrainWake ==
  /\ poolDrain = "sleeping"
  /\ DrainPass

PoolNext ==
  \/ \E c \in PoolCallers : AcquireAvailable(c)
  \/ \E c \in PoolCallers : AcquireWait(c)
  \/ \E c \in PoolCallers : Release(c)
  \/ \E order \in Orderings(busy) : Reset(order)
  \/ DrainCall
  \/ DrainWake

(***************************************************************************)
(* Fan-out of the analyses over the task queue and the analyzer pool       *)
(***************************************************************************)
\* The concurrency of the PQueue: config.parallelism.maxAnalyzers, the number
\* of analyzers the pool is built with.
FanConcurrency == PoolSize

FanInit == fanState = [c \in PoolCallers |-> "idle"]

FanRunning == {c \in PoolCallers : fanState[c] = "running"}

\* The analyses that hold an analyzer: worker.analyzeThread() is in progress.
FanExecuting == {c \in PoolCallers : poolHeld[c] # NoWorker}

\* taskQueue.add(() => this.analyzeThread(thread, repo, prNumber))
FanAdd(c) ==
  /\ fanState[c] = "idle"
  /\ poolAcquires < MaxPoolAcquires
  /\ fanState' = [fanState EXCEPT ![c] = "queued"]
  /\ UNCHANGED poolVars

\* The queue starts a task while fewer than its concurrency are pending:
\* analyzeThread() calls analyzerPool.acquire().
FanStart(c) ==
  /\ fanState[c] = "queued"
  /\ Cardinality(FanRunning) < FanConcurrency
  /\ fanState' = [fanState EXCEPT ![c] = "running"]
  /\ (AcquireAvailable(c) \/ AcquireWait(c))

\* worker.analyzeThread() returned or threw: the finally block releases the
\* worker and the task settles.
FanFinish(c) ==
  /\ fanState[c] = "running"
  /\ fanState' = [fanState EXCEPT ![c] = "idle"]
  /\ Release(c)

FanNext ==
  \/ \E c \in PoolCallers : FanAdd(c)
  \/ \E c \in PoolCallers : FanStart(c)
  \/ \E c \in PoolCallers : FanFinish(c)

(***************************************************************************)
(* MessageBus                                                              *)
(***************************************************************************)
MAX_MESSAGE_LOG_SIZE == 10000

\* The agents that use the bus.  The response channel of an agent,
\* `${source}-response`, is identified by the agent.
Agents == {"a", "b"}

MessageIds == 1..MaxBusMessages

NoCorrelation == 0

NoRequest ==
  [source |-> "none", status |-> "none", settledBy |-> NoCorrelation,
   settles |-> 0, unrelated |-> 0, late |-> 0]

\* The log after MAX_MESSAGE_LOG_SIZE - 2 earlier send() calls, whose
\* messages carry the ids below 1.
NearlyFullLog ==
  [i \in 1..(MAX_MESSAGE_LOG_SIZE - 2) |->
     [id |-> i - (MAX_MESSAGE_LOG_SIZE - 2), via |-> "send"]]

\* The state after new MessageBus(), or after the sends that left one of logs.
BusInitWith(logs) ==
  /\ messageLog \in logs
  /\ pendingResponses = {}
  /\ busListeners = [a \in Agents |-> {}]
  /\ busTimers = {}
  /\ busNextId = 1
  /\ busRequests = [r \in MessageIds |-> NoRequest]
  /\ busSubscribers = [a \in Agents |-> <<>>]
  /\ busErrorEvents = 0
  /\ busRejections = 0
  /\ busFailures = 0
  /\ busSendRaised = FALSE

\* The state after new MessageBus().
BusInit == BusInitWith({<<>>})

\* A log that is never trimmed.
LogAppendUnbounded(log, m) == Append(log, m)

\* messageLog.push(fullMessage) followed by the circular-buffer shift.
LogAppend(log, m) ==
  IF Len(log) + 1 > MAX_MESSAGE_LOG_SIZE THEN Tail(Append(log, m)) ELSE Append(log, m)

\* A responseHandler that accepts any response on its channel.
ResponseMatchesAny(request, correlationId) == TRUE

\* responseHandler: `if (response.correlationId !== messageId) return;`
ResponseMatches(request, correlationId) == correlationId = request

\* resolve()/reject() on the promise of a request: only the first call settles it.
Settle(req, status, by) ==
  IF req.status = "pending"
  THEN [req EXCEPT !.status = status, !.settledBy = by, !.settles = @ + 1]
  ELSE [req EXCEPT !.settles = @ + 1]

\* emit(`${source}-response`, response): every responseHandler registered on
\* the channel runs; the ones that match clear their timer, drop their pending
\* entry, deregister and resolve their promise.
EmitResponse(source, correlationId) ==
  LET hit == {r \in busListeners[source] : ResponseMatches(r, correlationId)}
      miss == busListeners[source] \ hit
  IN  /\ busTimers' = busTimers \ hit
      /\ pendingResponses' = pendingResponses \ hit
      /\ busListeners' = [busListeners EXCEPT ![source] = @ \ hit]
      /\ busRequests' =
           [r \in MessageIds |->
              IF r \in hit THEN Settle(busRequests[r], "resolved", correlationId)
              ELSE IF r \in miss THEN [busRequests[r] EXCEPT !.unrelated = @ + 1]
              ELSE IF /\ r = correlationId
                      /\ busRequests[r].source = source
                      /\ busRequests[r].status = "rejected"
                   THEN [busRequests[r] EXCEPT !.late = @ + 1]
              ELSE busRequests[r]]

\* What a handler passed to subscribe() does with a message: it completes,
\* throws, or returns a promise that rejects.
HandlerKinds == {"ok", "throws", "rejects"}

\* A listener that calls the handler without try/catch.
WrapperOutcomeUncaught(kind) ==
  CASE kind = "ok" -> "done"
    [] kind = "throws" -> "raised"
    [] kind = "rejects" -> "unhandled"

\* The listener subscribe() registers: `try { await handler(message) }
\* catch (error) { this.emit('error', error) }`.  A throw is caught in the
\* same turn; a rejection is caught when the awaited promise settles.
WrapperOutcome(kind) ==
  CASE kind = "ok" -> "done"
    [] kind = "throws" -> "caught"
    [] kind = "rejects" -> "awaiting"

\* emit() calls the listeners in registration order and stops at a listener
\* that raises: the number of listeners it invokes.
InvokedCount(listeners) ==
  LET raising == {i \in 1..Len(listeners) : WrapperOutcome(listeners[i].kind) = "raised"}
  IN  IF raising = {} THEN Len(listeners)
      ELSE CHOOSE i \in raising : \A j \in raising : i <= j

OutcomeCount(listeners, n, outcome) ==
  Cardinality({i \in 1..n : WrapperOutcome(listeners[i].kind) = outcome})

\* emit(target, message) for the listeners of subscribe(): whether the
\* emit raises to its caller is `raised`.
EmitToSubscribers(target, raised) ==
  LET listeners == busSubscribers[target]
      n == InvokedCount(listeners)
  IN  /\ busSubscribers' = [busSubscribers EXCEPT ![target] =
             [i \in 1..Len(listeners) |->
                IF i <= n THEN [listeners[i] EXCEPT !.received = @ + 1]
                ELSE [listeners[i] EXCEPT !.missed = @ + 1]]]
      /\ busErrorEvents' = busErrorEvents + OutcomeCount(listeners, n, "caught")
      /\ busRejections' = busRejections + OutcomeCount(listeners, n, "awaiting")
      /\ busFailures' = busFailures
                          + Cardinality({i \in 1..n : listeners[i].kind # "ok"})
      /\ raised = (OutcomeCount(listeners, n, "raised") > 0)

\* The handlers registered with subscribe() in one run.
SubscriberSlots == {1, 2}

\* subscribe(agentId, handler): registers the wrapped handler on the channel.
Subscribe(agentId, kind) ==
  /\ Len(busSubscribers["a"]) + Len(busSubscribers["b"]) < Cardinality(SubscriberSlots)
  /\ busSubscribers' = [busSubscribers EXCEPT ![agentId] =
                          Append(@, [kind |-> kind, received |-> 0, missed |-> 0])]
  /\ UNCHANGED <<messageLog, pendingResponses, busListeners, busTimers, busNextId,
                 busRequests, busErrorEvents, busRejections, busFailures, busSendRaised>>

\* The promise awaited by a subscribe() listener rejects: the catch block
\* emits the 'error' event.
HandlerRejects ==
  /\ busRejections > 0
  /\ busRejections' = busRejections - 1
  /\ busErrorEvents' = busErrorEvents + 1
  /\ UNCHANGED <<messageLog, pendingResponses, busListeners, busTimers, busNextId,
                 busRequests, busSubscribers, busFailures, busSendRaised>>

\* send(message) to an agent channel: the message is logged and emitted to
\* the subscribers of the target.
SendToAgent(target) ==
  /\ busNextId <= MaxBusMessages
  /\ busNextId' = busNextId + 1
  /\ messageLog' = LogAppend(messageLog, [id |-> busNextId, via |-> "send"])
  /\ \E raised \in BOOLEAN :
       /\ EmitToSubscribers(target, raised)
       /\ busSendRaised' = (busSendRaised \/ raised)
  /\ UNCHANGED <<pendingResponses, busListeners, busTimers, busRequests>>

\* send(message) whose target is the response channel of `source`: the
\* message is logged and reaches the responseHandlers registered there.
SendToResponseChannel(source, correlationId) ==
  /\ busNextId <= MaxBusMessages
  /\ busNextId' = busNextId + 1
  /\ messageLog' = LogAppend(messageLog, [id |-> busNextId, via |-> "send"])
  /\ EmitResponse(source, correlationId)
  /\ UNCHANGED busSubVars

\* request(message, timeoutMs): arms the timeout, registers the pending entry
\* and the responseHandler, logs the message and emits it on the target.
Request(source, target) ==
  /\ busNextId <= MaxBusMessages
  /\ busNextId' = busNextId + 1
  /\ busTimers' = busTimers \cup {busNextId}
  /\ pendingResponses' = pendingResponses \cup {busNextId}
  /\ busListeners' = [busListeners EXCEPT ![source] = @ \cup {busNextId}]
  /\ busRequests' = [busRequests EXCEPT ![busNextId] =
                       [NoRequest EXCEPT !.source = source, !.status = "pending"]]
  /\ messageLog' = LogAppend(messageLog, [id |-> busNextId, via |-> "request"])
  /\ \E raised \in BOOLEAN : EmitToSubscribers(target, raised)
  /\ UNCHANGED busSendRaised

\* What the timeout callback removes: the responseHandler and the pending entry.
TimeoutCleanupNone(request) == {}

TimeoutCleanup(request) == {request}

\* The timeout of a request fires after timeoutMs without a matching response.
TimeoutFires(r) ==
  /\ r \in busTimers
  /\ busTimers' = busTimers \ {r}
  /\ busListeners' = [a \in Agents |-> busListeners[a] \ TimeoutCleanup(r)]
  /\ pendingResponses' = pendingResponses \ TimeoutCleanup(r)
  /\ busRequests' = [busRequests EXCEPT ![r] = Settle(@, "rejected", NoCorrelation)]
  /\ UNCHANGED <<messageLog, busNextId, busSubVars>>

\* respond(originalMessage, response), for a request message delivered
\* earlier: builds the correlated response and emits it on the response
\* channel of the request's source.
Respond(r) ==
  /\ busRequests[r].status # "none"
  /\ busNextId <= MaxBusMessages
  /\ busNextId' = busNextId + 1
  /\ EmitResponse(busRequests[r].source, r)
  /\ UNCHANGED <<messageLog, busSubVars>>

BusNext ==
  \/ \E t \in Agents : SendToAgent(t)
  \/ \E a \in Agents, c \in {NoCorrelation} \cup MessageIds : SendToResponseChannel(a, c)
  \/ \E a \in Agents, t \in Agents : Request(a, t)
  \/ \E r \in MessageIds : TimeoutFires(r)
  \/ \E r \in MessageIds : Respond(r)

\* The callers of send() and request(), the methods that append to the log.
BusLogNext ==
  \/ \E t \in Agents : SendToAgent(t)
  \/ \E a \in Agents, t \in Agents : Request(a, t)

\* The bus with agents that subscribe handlers and callers of send() and
\* request().
BusSubNext ==
  \/ \E a \in Agents, kind \in HandlerKinds : Subscribe(a, kind)
  \/ \E t \in Agents : SendToAgent(t)
  \/ \E a \in Agents, t \in Agents : Request(a, t)
  \/ HandlerRejects

(***************************************************************************)
(* Workflow state machine                                                  *)
(***************************************************************************)
\* Thread ids a caller may pass: the ids of loaded threads are 1..Len(threads);
\* 0 is the id of no thread.
WfThreadIds == 0..MaxWfThreads

NoDecision == [recorded |-> FALSE, isValid |-> FALSE, fixApplied |-> FALSE]

\* The thread lists a start can load: every length up to MaxWfThreads, each
\* thread with or without a self-correction in its comments.
WfThreadLists == UNION {[1..n -> BOOLEAN] : n \in 0..MaxWfThreads}

\* No workflow started yet.
WFInit ==
  /\ wfExists = FALSE
  /\ wfThreads = <<>>
  /\ currentIndex = 0
  /\ processed = 0
  /\ decisions = [t \in WfThreadIds |-> NoDecision]
  /\ wfOps = 0
  /\ wfLastOp = "none"
  /\ wfReport = "none"
  /\ wfCommits = 0
  /\ wfPushes = 0
  /\ wfResolves = 0

WfCall(op) ==
  /\ wfOps < MaxWfOps
  /\ wfOps' = wfOps + 1
  /\ wfLastOp' = op

\* The step announced for the thread at index i: resolve when the thread shows
\* a self-correction, validate otherwise.
StepFor(threads, i) == IF threads[i] THEN "resolve" ELSE "validate"

\* handleWorkflowStart: with no unresolved thread it reports complete and
\* creates nothing; otherwise WorkflowStateManager.create() seats a fresh
\* state for the key.
WorkflowStart(threads) ==
  /\ WfCall("start")
  /\ IF Len(threads) = 0
     THEN /\ wfReport' = "complete"
          /\ UNCHANGED <<wfExists, wfThreads, currentIndex, processed, decisions>>
     ELSE /\ wfExists' = TRUE
          /\ wfThreads' = threads
          /\ currentIndex' = 0
          /\ processed' = 0
          /\ decisions' = [t \in WfThreadIds |-> NoDecision]
          /\ wfReport' = StepFor(threads, 1)
  /\ UNCHANGED <<wfCommits, wfPushes, wfResolves>>

\* handleWorkflowValidate: recordDecision() stores the decision whenever a
\* state exists; the handler then throws if there is no state or the thread
\* is not in it, and otherwise announces apply or challenge.
WorkflowValidate(threadId, isValid) ==
  /\ WfCall("validate")
  /\ decisions' = IF wfExists
                  THEN [decisions EXCEPT ![threadId] =
                          [recorded |-> TRUE, isValid |-> isValid, fixApplied |-> FALSE]]
                  ELSE decisions
  /\ wfReport' = IF ~wfExists \/ threadId \notin 1..Len(wfThreads) THEN "error"
                 ELSE IF isValid THEN "apply" ELSE "challenge"
  /\ UNCHANGED <<wfExists, wfThreads, currentIndex, processed, wfCommits, wfPushes,
                 wfResolves>>

\* An advance() that does not clamp at the end of the list.
AdvanceIndexUnclamped(index, length) == index + 1

\* advance(): Math.min(state.currentIndex + 1, state.threads.length)
AdvanceIndex(index, length) == Min(index + 1, length)

\* WorkflowStateManager.advance() and the step the handler announces after it:
\* complete when advance() returns false, else the step for the next thread.
AdvanceAndReport ==
  IF wfExists
  THEN /\ currentIndex' = AdvanceIndex(currentIndex, Len(wfThreads))
       /\ processed' = processed + 1
       /\ wfReport' = IF currentIndex' < Len(wfThreads)
                      THEN StepFor(wfThreads, currentIndex' + 1)
                      ELSE "complete"
  ELSE /\ wfReport' = "complete"
       /\ UNCHANGED <<currentIndex, processed>>

\* How far applyValidatedFix() got: applyBatch() failed, git commit failed,
\* git push failed, resolveThread() failed, or everything went through.
ApplyOutcomes == {"patchFailed", "commitFailed", "pushFailed", "resolveFailed", "applied"}

\* applyValidatedFix(): applyBatch() of the one patch, commitAndPush() (commit,
\* then push), resolveThread(); any failure is returned as success: false.
ApplyValidatedFix(threadId, outcome) ==
  /\ wfCommits' = IF outcome \in {"pushFailed", "resolveFailed", "applied"}
                  THEN wfCommits + 1 ELSE wfCommits
  /\ wfPushes' = IF outcome \in {"resolveFailed", "applied"} THEN wfPushes + 1 ELSE wfPushes
  /\ wfResolves' = IF outcome = "applied" THEN wfResolves + 1 ELSE wfResolves

\* handleWorkflowApply: a failed applyValidatedFix() throws before any state
\* change; otherwise recordApplication() marks an existing decision and
\* advance() moves on.
WorkflowApply(threadId, outcome) ==
  /\ WfCall("apply")
  /\ ApplyValidatedFix(threadId, outcome)
  /\ IF outcome # "applied"
     THEN /\ wfReport' = "error"
          /\ UNCHANGED <<currentIndex, processed, decisions>>
     ELSE /\ decisions' = IF wfExists /\ decisions[threadId].recorded
                          THEN [decisions EXCEPT ![threadId].fixApplied = TRUE]
                          ELSE decisions
          /\ AdvanceAndReport
  /\ UNCHANGED <<wfExists, wfThreads>>

\* handleWorkflowChallenge: a failed postComment() throws before any state
\* change; otherwise advance() moves on.
WorkflowChallenge(threadId, posted) ==
  /\ WfCall("challenge")
  /\ IF ~posted
     THEN /\ wfReport' = "error"
          /\ UNCHANGED <<currentIndex, processed>>
     ELSE AdvanceAndReport
  /\ UNCHANGED <<wfExists, wfThreads, decisions, wfCommits, wfPushes, wfResolves>>

\* getProgress(): total, processed, remaining and the rounded percentage, all
\* zero when there is no state.
GetProgress ==
  IF ~wfExists
  THEN [total |-> 0, processed |-> 0, remaining |-> 0, percentComplete |-> 0]
  ELSE [total |-> Len(wfThreads),
        processed |-> processed,
        remaining |-> Len(wfThreads) - processed,
        percentComplete |-> IF Len(wfThreads) > 0
                            THEN (200 * processed + Len(wfThreads)) \div (2 * Len(wfThreads))
                            ELSE 0]

\* handleWorkflowStatus: start when there is no state, validate while
\* getCurrentThread() finds a thread at currentIndex, complete otherwise.
WorkflowStatus ==
  /\ WfCall("status")
  /\ wfReport' = IF ~wfExists THEN "start"
                 ELSE IF currentIndex + 1 \in 1..Len(wfThreads) THEN "validate"
                 ELSE "complete"
  /\ UNCHANGED <<wfExists, wfThreads, currentIndex, processed, decisions, wfCommits,
                 wfPushes, wfResolves>>

\* github_resolve_thread, the tool the resolve step names: executeTool()
\* passes it to resolveThread() and returns its result, which carries no
\* workflow instruction; the workflow state is not touched.
WorkflowResolve(threadId, done) ==
  /\ WfCall("resolve")
  /\ wfResolves' = IF done THEN wfResolves + 1 ELSE wfResolves
  /\ wfReport' = IF done THEN "noInstruction" ELSE "error"
  /\ UNCHANGED <<wfExists, wfThreads, currentIndex, processed, decisions, wfCommits,
                 wfPushes>>

\* The step a caller is at who does what the last response told it to do, and
\* repeats a tool call that failed.
Instructed(step) ==
  \/ wfReport = step
  \/ wfReport = "error" /\ wfLastOp = step

\* A caller that starts the workflow once and then calls the tool named by
\* next_tool with the thread id of next_params.
WFFollowNext ==
  \/ \E threads \in WfThreadLists : wfReport = "none" /\ WorkflowStart(threads)
  \/ \E v \in BOOLEAN : Instructed("validate") /\ WorkflowValidate(currentIndex + 1, v)
  \/ \E outcome \in ApplyOutcomes :
       Instructed("apply") /\ WorkflowApply(currentIndex + 1, outcome)
  \/ \E ok \in BOOLEAN : Instructed("challenge") /\ WorkflowChallenge(currentIndex + 1, ok)
  \/ \E ok \in BOOLEAN : Instructed("resolve") /\ WorkflowResolve(currentIndex + 1, ok)

WFNext ==
  \/ \E threads \in WfThreadLists : WorkflowStart(threads)
  \/ \E t \in WfThreadIds, v \in BOOLEAN : WorkflowValidate(t, v)
  \/ \E t \in WfThreadIds, outcome \in ApplyOutcomes : WorkflowApply(t, outcome)
  \/ \E t \in WfThreadIds, ok \in BOOLEAN : WorkflowChallenge(t, ok)
  \/ WorkflowStatus

(***************************************************************************)
(* StateManager                                                            *)
(***************************************************************************)
\* The review threads of the pull request that belong to the bot author.
Threads == {1, 2}

\* The threads of a set in the order in which the remote service lists them.
RECURSIVE Ordered(_)
Ordered(S) ==
  IF S = {} THEN <<>>
  ELSE LET m == CHOOSE x \in S : \A y \in S : x <= y
       IN  <<m>> \o Ordered(S \ {m})

NoThreadState ==
  [status |-> "absent", attempts |-> 0, commitSha |-> 0, lastError |-> FALSE,
   ciRunUrl |-> 0]

\* An entry that ignores what is stored and always starts from the default.
StoredOrDefaultFresh(st) == [st EXCEPT !.status = "pending", !.attempts = 0]

\* The entry markThreadsAsProcessing starts from: the stored one, or the
\* default {status: 'pending', attempts: 0}.
StoredOrDefault(st) == IF st.status = "absent" THEN [st EXCEPT !.status = "pending"] ELSE st

\* markThreadsAsProcessing(threadIds)
MarkThreadsAsProcessing(states, threadIds) ==
  [t \in Threads |->
     IF t \in threadIds
     THEN [StoredOrDefault(states[t]) EXCEPT !.status = "processing", !.attempts = @ + 1]
     ELSE states[t]]

\* markThreadsAsPushed(threadIds, commitSha): only stored threads change.
MarkThreadsAsPushed(states, threadIds, sha) ==
  [t \in Threads |->
     IF t \in threadIds /\ states[t].status # "absent"
     THEN [states[t] EXCEPT !.status = "pushed", !.commitSha = sha]
     ELSE states[t]]

\* markThreadsAsFailed(threadIds, error, ciRunUrl): only stored threads change.
MarkThreadsAsFailed(states, threadIds, url) ==
  [t \in Threads |->
     IF t \in threadIds /\ states[t].status # "absent"
     THEN [states[t] EXCEPT !.status = "ci_failed", !.lastError = TRUE, !.ciRunUrl = url]
     ELSE states[t]]

(***************************************************************************)
(* StateManager: mutex and listeners                                       *)
(***************************************************************************)
\* Two clients of the StateManager, and the call a listener issues from
\* inside its callback.
SmCallers == {"c1", "c2", "listener"}

\* Listener callbacks: one that returns, one that throws, one that calls
\* updateThreadState() for the thread it was notified about.
ListenerKinds == {"plain", "throwing", "updating"}

NoOp == [kind |-> "none", ids |-> {}]

\* The calls a client issues: markThreadsAsProcessing(ids),
\* updateThreadState(id, updater), getThreadState(id).
SmOps ==
  {[kind |-> "mark", ids |-> ids] : ids \in {{1}, Threads}}
    \cup {[kind |-> "update", ids |-> {t}] : t \in Threads}
    \cup {[kind |-> "read", ids |-> {1}]}

\* The threads the listeners of this model subscribe to.
WatchedThreads == {1}

NoNotified == [trigger |-> "none", invoked |-> <<>>, complete |-> FALSE, underLock |-> FALSE]

\* async-mutex acquire(): the lock is taken when it is free, otherwise the
\* call waits at the end of the queue.
MutexAcquire(holders, queue, c) ==
  IF holders = {}
  THEN [holders |-> {c}, queue |-> queue]
  ELSE [holders |-> holders, queue |-> Append(queue, c)]

\* A release() that leaves the lock with its holder.
MutexReleaseNever(holders, queue, c) == [holders |-> holders, queue |-> queue]

\* async-mutex release(): the lock passes to the oldest waiting call, or
\* becomes free.
MutexRelease(holders, queue, c) ==
  IF queue = <<>>
  THEN [holders |-> holders \ {c}, queue |-> queue]
  ELSE [holders |-> (holders \ {c}) \cup {Head(queue)}, queue |-> Tail(queue)]

\* The updater the clients and the listener pass to updateThreadState(): it
\* keeps the stored entry (or starts from the default one) and sets lastError.
Updater(st) == [StoredOrDefault(st) EXCEPT !.lastError = TRUE]

\* The thread-state map after the critical section of a call.
AfterCriticalSection(states, op) ==
  CASE op.kind = "mark" -> MarkThreadsAsProcessing(states, op.ids)
    [] op.kind = "update" -> [t \in Threads |-> IF t \in op.ids THEN Updater(states[t]) ELSE states[t]]
    [] OTHER -> states

\* The callbacks subscribed to the threads a call changed, in notification
\* order: thread by thread, each thread's callbacks oldest first.
Subscribed(op) ==
  IF op.kind = "read" THEN <<>>
  ELSE LET ids == Ordered(op.ids)
           F[i \in 0..Len(ids)] == IF i = 0 THEN <<>> ELSE F[i - 1] \o smListeners[ids[i]]
       IN  F[Len(ids)]

\* The callbacks actually invoked: each call sits in its own try/catch.
Invoked(callbacks) == callbacks

SMInit ==
  /\ smHolders = {}
  /\ smQueue = <<>>
  /\ smOp = [c \in SmCallers |-> NoOp]
  /\ smListeners = [t \in Threads |-> <<>>]
  /\ smCalls = 0
  /\ smMarked = [t \in Threads |-> 0]
  /\ smOverlap = FALSE
  /\ smNotified = NoNotified

\* subscribe(threadId, callback): synchronous, outside the mutex.
SmSubscribe(t, kind) ==
  /\ \A i \in 1..Len(smListeners[t]) : smListeners[t][i] # kind
  /\ smListeners' = [smListeners EXCEPT ![t] = Append(@, kind)]
  /\ UNCHANGED <<smHolders, smQueue, smOp, smCalls, smMarked, smOverlap, smNotified>>
  /\ UNCHANGED threadStates

\* A client calls a StateManager method: it runs up to await mutex.acquire().
SmCall(c, op) ==
  /\ c # "listener"
  /\ smOp[c] = NoOp
  /\ smCalls < MaxSmCalls
  /\ smCalls' = smCalls + 1
  /\ smOp' = [smOp EXCEPT ![c] = op]
  /\ smOverlap' = (smOverlap \/ \E d \in SmCallers : smOp[d] # NoOp)
  /\ LET m == MutexAcquire(smHolders, smQueue, c)
     IN  smHolders' = m.holders /\ smQueue' = m.queue
  /\ UNCHANGED <<smListeners, smMarked, smNotified>>
  /\ UNCHANGED threadStates

\* A call resumes with the lock: the critical section, release(), and the
\* listener notifications all run in this one turn. A notified "updating"
\* listener that has no update in progress calls updateThreadState() for the
\* first thread of the round, which runs up to its own mutex.acquire().
SmRun(c) ==
  /\ c \in smHolders
  /\ LET op == smOp[c]
         released == MutexRelease(smHolders, smQueue, c)
         invoked == Invoked(Subscribed(op))
         nested == /\ \E i \in 1..Len(invoked) : invoked[i] = "updating"
                   /\ (c = "listener" \/ smOp["listener"] = NoOp)
                   /\ smCalls < MaxSmCalls
         final == IF nested
                  THEN MutexAcquire(released.holders, released.queue, "listener")
                  ELSE released
         nestedOp == [kind |-> "update", ids |-> {CHOOSE t \in op.ids : \A u \in op.ids : t <= u}]
     IN  /\ threadStates' = AfterCriticalSection(threadStates, op)
         /\ smHolders' = final.holders
         /\ smQueue' = final.queue
         /\ smOp' = [d \in SmCallers |->
                       IF d = "listener" /\ nested THEN nestedOp
                       ELSE IF d = c THEN NoOp ELSE smOp[d]]
         /\ smCalls' = IF nested THEN smCalls + 1 ELSE smCalls
         /\ smMarked' = [t \in Threads |->
                           IF op.kind = "mark" /\ t \in op.ids THEN smMarked[t] + 1
                           ELSE smMarked[t]]
         /\ smNotified' = IF op.kind = "read" THEN smNotified
                          ELSE [trigger |-> c, invoked |-> invoked,
                                complete |-> (invoked = Subscribed(op)),
                                underLock |-> (c \in released.holders)]
  /\ UNCHANGED <<smListeners, smOverlap>>

SMNext ==
  \/ \E t \in WatchedThreads, kind \in ListenerKinds : SmSubscribe(t, kind)
  \/ \E c \in SmCallers, op \in SmOps : SmCall(c, op)
  \/ \E c \in SmCallers : SmRun(c)

(***************************************************************************)
(* Orchestration pipeline                                                  *)
(***************************************************************************)
\* ValidationResult, plus "failed" for an analysis task that rejected.
AnalysisOutcomes == {"valid", "invalid", "needs_review", "unpatchable", "failed"}

\* What waitForCheckRuns returns.
CIResults == {"success", "failure", "timeout", "no_checks_found"}

NoResult == [processed |-> 0, resolved |-> 0, rejected |-> 0, needsReview |-> 0, errors |-> 0]

NoRunResult ==
  [success |-> TRUE, processed |-> 0, resolved |-> 0, rejected |-> 0,
   needsReview |-> 0, errors |-> 0]

NoCalls ==
  [resolve |-> {}, ack |-> {}, ciFailure |-> {}, patchFailure |-> {}, explain |-> {},
   applied |-> {}, failed |-> {}]

NoArgs == [maxIterations |-> 0, dryRun |-> FALSE, validationMode |-> "internal"]

\* The first k elements of a sequence, as a set.
Prefix(seq, k) == {seq[i] : i \in 1..k}

WithOutcome(outcomes) == {t \in batch : analysis[t] \in outcomes}

validFixes == WithOutcome({"valid"})

invalidThreads == WithOutcome({"invalid"})

needsReviewThreads == WithOutcome({"needs_review", "unpatchable"})

\* The state before run() is called; opens are the sets of unresolved threads
\* the pull request may have.
PipeInit(opens) ==
  /\ threadStates = [t \in Threads |-> NoThreadState]
  /\ remoteOpen \in opens
  /\ pipePc = "idle"
  /\ pipeArgs = NoArgs
  /\ prMeta = "none"
  /\ iteration = 0
  /\ batch = {}
  /\ analysis = [t \in Threads |-> "none"]
  /\ commitSha = 0
  /\ ciResult = "none"
  /\ commits = {}
  /\ reverted = {}
  /\ iterResult = NoResult
  /\ runResult = NoRunResult
  /\ iterationsRun = 0
  /\ iterCalls = NoCalls
  /\ polling = FALSE
  /\ workTree = {}
  /\ commitFiles = {}

\* The catch block of runIteration(): the error is recorded and the iteration
\* returns its result.
IterationThrows ==
  /\ iterResult' = [iterResult EXCEPT !.errors = @ + 1]
  /\ pipePc' = "iterEnd"

\* The catch block of run(): success becomes false and the error is recorded.
RunThrows ==
  /\ runResult' = [runResult EXCEPT !.success = FALSE, !.errors = @ + 1]
  /\ pipePc' = "finally"

\* run(repo, prNumber, maxIterations, dryRun, validationMode) is called.
RunCall(maxIterations, dryRun, validationMode) ==
  /\ pipePc = "idle"
  /\ pipeArgs' = [maxIterations |-> maxIterations, dryRun |-> dryRun,
                  validationMode |-> validationMode]
  /\ runResult' = NoRunResult
  /\ pipePc' = "preflight"
  /\ UNCHANGED <<prMeta, threadStates, remoteOpen, iteration, batch, analysis, commitSha,
                 ciResult, commits, reverted, iterResult, iterationsRun,
                 iterCalls, polling>>
  /\ UNCHANGED <<workTree, commitFiles>>

\* A pre-flight check that lets draft and closed pull requests through.
PreflightFailsOnErrorOnly(meta) == meta = "error"

\* getPRMeta() threw, or `prMeta.isDraft || prMeta.state === 'closed'`.
PreflightFails(meta) == meta \in {"error", "draft", "closed"}

\* Pre-flight: getPRMeta() may fail; a draft or closed PR fails the run; the
\* external validation mode takes the short-circuit; otherwise the loop starts.
Preflight(meta) ==
  /\ pipePc = "preflight"
  /\ prMeta' = meta
  /\ IF PreflightFails(meta)
     THEN RunThrows /\ UNCHANGED iteration
     ELSE /\ pipePc' = IF pipeArgs.validationMode = "external" THEN "external"
                       ELSE IF 1 <= pipeArgs.maxIterations THEN "fetch" ELSE "finally"
          /\ iteration' = IF pipeArgs.validationMode = "external" THEN iteration ELSE 1
          /\ UNCHANGED runResult
  /\ UNCHANGED <<threadStates, remoteOpen, pipeArgs, batch, analysis, commitSha,
                 ciResult, commits, reverted, iterResult, iterationsRun,
                 iterCalls, polling>>
  /\ UNCHANGED <<workTree, commitFiles>>

\* validationMode = 'external': getUnresolvedThreads() and return the batch
\* unprocessed, with needsReview set to its size.
ExternalReturn(fetched) ==
  /\ pipePc = "external"
  /\ IF fetched
     THEN /\ runResult' = [runResult EXCEPT !.needsReview = Cardinality(remoteOpen)]
          /\ pipePc' = "finally"
     ELSE RunThrows
  /\ UNCHANGED <<threadStates, remoteOpen, pipeArgs, prMeta, iteration, batch, analysis,
                 commitSha, ciResult, commits, reverted, iterResult,
                 iterationsRun, iterCalls, polling>>
  /\ UNCHANGED <<workTree, commitFiles>>

\* runIteration() step 1: fetch the bot's unresolved threads; none left ends
\* the iteration with an empty result.
IterFetch(fetched) ==
  /\ pipePc = "fetch"
  /\ analysis' = [t \in Threads |-> "none"]
  /\ commitSha' = 0
  /\ ciResult' = "none"
  /\ iterCalls' = NoCalls
  /\ IF fetched
     THEN /\ batch' = remoteOpen
          /\ iterResult' = NoResult
          /\ pipePc' = IF remoteOpen = {} THEN "iterEnd" ELSE "mark"
     ELSE /\ batch' = {}
          /\ iterResult' = [NoResult EXCEPT !.errors = 1]
          /\ pipePc' = "iterEnd"
  /\ UNCHANGED <<threadStates, remoteOpen, pipeArgs, prMeta, iteration, commits, reverted,
                 runResult, iterationsRun, polling>>
  /\ UNCHANGED <<workTree, commitFiles>>

\* Step 2: mark the fetched threads as processing.
IterMark ==
  /\ pipePc = "mark"
  /\ threadStates' = MarkThreadsAsProcessing(threadStates, batch)
  /\ pipePc' = "analyze"
  /\ UNCHANGED <<remoteOpen, pipeArgs, prMeta, iteration, batch, analysis, commitSha,
                 ciResult, commits, reverted, iterResult, runResult,
                 iterationsRun, iterCalls, polling>>
  /\ UNCHANGED <<workTree, commitFiles>>

\* A fan-out that gives up the iteration when one analysis rejects
\* (Promise.all).
AfterAnalysisFailFast(valid, failed) ==
  IF failed > 0 THEN "iterEnd"
  ELSE IF valid > 0 /\ ~pipeArgs.dryRun THEN "apply" ELSE "comments"

\* Where the iteration goes after Promise.allSettled and the collection
\* loop: `if (validFixes.length > 0 && !dryRun)` enters the apply step,
\* otherwise the comment step follows.
AfterAnalysis(valid, failed) ==
  IF valid > 0 /\ ~pipeArgs.dryRun THEN "apply" ELSE "comments"

\* Steps 3 and 4: every thread is analysed (allSettled) and the results are
\* counted and partitioned; then the dry-run shortcut or the apply step.
IterAnalyze(outcomes) ==
  /\ pipePc = "analyze"
  /\ analysis' = [t \in Threads |-> IF t \in batch THEN outcomes[t] ELSE "none"]
  /\ LET count(os) == Cardinality({t \in batch : outcomes[t] \in os})
         valid == count({"valid"})
     IN  /\ iterResult' =
              [iterResult EXCEPT
                 !.processed = @ + Cardinality(batch),
                 !.rejected = @ + count({"invalid"}),
                 !.needsReview = @ + count({"needs_review", "unpatchable"}),
                 !.errors = @ + count({"failed"}),
                 !.resolved = IF pipeArgs.dryRun /\ valid > 0 THEN valid ELSE @]
         /\ pipePc' = AfterAnalysis(valid, count({"failed"}))
  /\ UNCHANGED <<threadStates, remoteOpen, pipeArgs, prMeta, iteration, batch, commitSha,
                 ciResult, commits, reverted, runResult, iterationsRun,
                 iterCalls, polling>>
  /\ UNCHANGED <<workTree, commitFiles>>

\* An applyBatch() that reports success whatever failed.
BatchSucceededAlways(failed) == TRUE

\* applyBatch(): `result.success = false` in the catch block of a patch that
\* failed to apply.
BatchSucceeded(failed) == failed = {}

\* applyPatch(): fs.writeFile() of each patch that applied, in iteration it.
Written(it, applied) == {[iteration |-> it, thread |-> t] : t \in applied}

\* Step 5: applyBatch() applies the valid patches one by one; it succeeds when
\* none of them failed. The files of the patches that applied are written
\* either way.
IterApply(failed) ==
  /\ pipePc = "apply"
  /\ iterCalls' = [iterCalls EXCEPT !.applied = validFixes \ failed, !.failed = failed]
  /\ workTree' = workTree \cup Written(iteration, validFixes \ failed)
  /\ UNCHANGED commitFiles
  /\ IF BatchSucceeded(failed)
     THEN /\ pipePc' = "commit"
          /\ UNCHANGED iterResult
     ELSE /\ pipePc' = "patchComments"
          /\ iterResult' = [iterResult EXCEPT !.errors = @ + 1]
  /\ UNCHANGED <<threadStates, remoteOpen, pipeArgs, prMeta, iteration, batch, analysis,
                 commitSha, ciResult, commits, reverted, runResult,
                 iterationsRun, polling>>

\* After a failed applyBatch(): a comment per valid fix; posted is how many
\* postComment() calls succeeded before one threw.
IterPatchComments(posted) ==
  /\ pipePc = "patchComments"
  /\ iterCalls' = [iterCalls EXCEPT !.patchFailure = Prefix(Ordered(validFixes), posted)]
  /\ IF posted < Cardinality(validFixes)
     THEN IterationThrows
     ELSE pipePc' = "comments" /\ UNCHANGED iterResult
  /\ UNCHANGED <<threadStates, remoteOpen, pipeArgs, prMeta, iteration, batch, analysis,
                 commitSha, ciResult, commits, reverted, runResult,
                 iterationsRun, polling>>
  /\ UNCHANGED <<workTree, commitFiles>>

\* `git add .`: every change of the working copy is staged.
Staged(tree) == tree

\* `git commit` and `git push`: the staged changes as content of commit sha.
Committed(sha, staged) ==
  {[commit |-> sha, iteration |-> r.iteration, thread |-> r.thread] : r \in staged}

\* Step 6: commitAndPush() stages every change of the working copy, commits
\* and pushes, or throws.
IterCommit(pushed) ==
  /\ pipePc = "commit"
  /\ IF pushed
     THEN /\ commitSha' = iteration
          /\ commits' = commits \cup {iteration}
          /\ commitFiles' = commitFiles \cup Committed(iteration, Staged(workTree))
          /\ workTree' = workTree \ Staged(workTree)
          /\ pipePc' = "markPushed"
          /\ UNCHANGED iterResult
     ELSE IterationThrows /\ UNCHANGED <<commitSha, commits, workTree, commitFiles>>
  /\ UNCHANGED <<threadStates, remoteOpen, pipeArgs, prMeta, iteration, batch, analysis,
                 ciResult, reverted, runResult, iterationsRun, iterCalls, polling>>

\* Step 7: mark the threads of the valid fixes as pushed.
IterMarkPushed ==
  /\ pipePc = "markPushed"
  /\ threadStates' = MarkThreadsAsPushed(threadStates, validFixes, commitSha)
  /\ pipePc' = "waitCI"
  /\ UNCHANGED <<remoteOpen, pipeArgs, prMeta, iteration, batch, analysis, commitSha,
                 ciResult, commits, reverted, iterResult, runResult,
                 iterationsRun, iterCalls, polling>>
  /\ UNCHANGED <<workTree, commitFiles>>

\* A dispatch that resolves the threads whatever CI returned.
AfterCIResolveAlways(result) == "resolve"

\* `if (ciResult === 'success') {...} else {...}` after waitForCI().
AfterCI(result) == IF result = "success" THEN "resolve" ELSE "revert"

\* Step 8: waitForCI() returns a conclusion or throws; only success goes on
\* to resolve the threads, everything else to the revert.
IterWaitCI(result) ==
  /\ pipePc = "waitCI"
  /\ IF result = "error"
     THEN IterationThrows /\ UNCHANGED ciResult
     ELSE /\ ciResult' = result
          /\ pipePc' = AfterCI(result)
          /\ UNCHANGED iterResult
  /\ UNCHANGED <<threadStates, remoteOpen, pipeArgs, prMeta, iteration, batch, analysis,
                 commitSha, commits, reverted, runResult, iterationsRun,
                 iterCalls, polling>>
  /\ UNCHANGED <<workTree, commitFiles>>

\* Step 9: for each valid fix resolveThread(), postComment(), resolved++.
\* done fixes went through completely; the next one may throw in
\* resolveThread() (stage "resolve") or in postComment() (stage "comment").
IterResolve(done, stage) ==
  /\ pipePc = "resolve"
  /\ LET fixes == Ordered(validFixes)
         resolved == IF stage = "comment" THEN Prefix(fixes, done + 1) ELSE Prefix(fixes, done)
     IN  /\ stage \in {"resolve", "comment"} => done < Len(fixes)
         /\ stage = "none" => done = Len(fixes)
         /\ remoteOpen' = remoteOpen \ resolved
         /\ iterCalls' = [iterCalls EXCEPT !.resolve = resolved, !.ack = Prefix(fixes, done)]
         /\ iterResult' = [iterResult EXCEPT
                             !.resolved = @ + done,
                             !.errors = IF stage = "none" THEN @ ELSE @ + 1]
         /\ pipePc' = IF stage = "none" THEN "comments" ELSE "iterEnd"
  /\ UNCHANGED <<threadStates, pipeArgs, prMeta, iteration, batch, analysis, commitSha,
                 ciResult, commits, reverted, runResult, iterationsRun, polling>>
  /\ UNCHANGED <<workTree, commitFiles>>

\* CI did not succeed: revertCommit() reverts the commit, or throws.
IterRevert(done) ==
  /\ pipePc = "revert"
  /\ IF done
     THEN /\ reverted' = reverted \cup {commitSha}
          /\ pipePc' = "markFailed"
          /\ UNCHANGED iterResult
     ELSE IterationThrows /\ UNCHANGED reverted
  /\ UNCHANGED <<threadStates, remoteOpen, pipeArgs, prMeta, iteration, batch, analysis,
                 commitSha, ciResult, commits, runResult, iterationsRun,
                 iterCalls, polling>>
  /\ UNCHANGED <<workTree, commitFiles>>

\* A markThreadsAsFailed call that is given every fetched thread.
FailedThreadsWholeBatch == batch

\* The threads the pipeline passes to markThreadsAsFailed.
FailedThreads == validFixes

\* After the revert: the threads of the valid fixes become ci_failed, with the
\* URL of the checks of the commit.
IterMarkFailed ==
  /\ pipePc = "markFailed"
  /\ threadStates' = MarkThreadsAsFailed(threadStates, FailedThreads, commitSha)
  /\ pipePc' = "failComments"
  /\ UNCHANGED <<remoteOpen, pipeArgs, prMeta, iteration, batch, analysis, commitSha,
                 ciResult, commits, reverted, iterResult, runResult,
                 iterationsRun, iterCalls, polling>>
  /\ UNCHANGED <<workTree, commitFiles>>

\* A failure explanation per valid fix; posted is how many postComment() calls
\* succeeded before one threw.
IterFailComments(posted) ==
  /\ pipePc = "failComments"
  /\ iterCalls' = [iterCalls EXCEPT !.ciFailure = Prefix(Ordered(validFixes), posted)]
  /\ IF posted < Cardinality(validFixes)
     THEN IterationThrows
     ELSE pipePc' = "comments" /\ UNCHANGED iterResult
  /\ UNCHANGED <<threadStates, remoteOpen, pipeArgs, prMeta, iteration, batch, analysis,
                 commitSha, ciResult, commits, reverted, runResult,
                 iterationsRun, polling>>
  /\ UNCHANGED <<workTree, commitFiles>>

\* An explanation step that comments on the invalid threads only.
ExplainedInvalidOnly == Ordered(invalidThreads)

\* Step 10: the threads that get an explanatory comment, in posting order.
Explained == Ordered(invalidThreads) \o Ordered(needsReviewThreads)

\* A comment step that posts in a dry run as well.
CommentsSkippedNever(dryRun) == FALSE

\* `if (!dryRun) { postComment } else { logger.dryRun }` of step 10.
CommentsSkipped(dryRun) == dryRun

\* Step 10: explanatory comments on the invalid and needs-review threads,
\* skipped in a dry run; posted is how many postComment() calls succeeded
\* before one threw.
IterComments(posted) ==
  /\ pipePc = "comments"
  /\ IF CommentsSkipped(pipeArgs.dryRun)
     THEN /\ posted = 0
          /\ pipePc' = "iterEnd"
          /\ UNCHANGED <<iterCalls, iterResult>>
     ELSE /\ posted <= Len(Explained)
          /\ iterCalls' = [iterCalls EXCEPT !.explain = Prefix(Explained, posted)]
          /\ IF posted < Len(Explained)
             THEN IterationThrows
             ELSE pipePc' = "iterEnd" /\ UNCHANGED iterResult
  /\ UNCHANGED <<threadStates, remoteOpen, pipeArgs, prMeta, iteration, batch, analysis,
                 commitSha, ciResult, commits, reverted, runResult,
                 iterationsRun, polling>>
  /\ UNCHANGED <<workTree, commitFiles>>

\* runIteration() returned: run() adds its counts to the result.
IterEnd ==
  /\ pipePc = "iterEnd"
  /\ runResult' = [runResult EXCEPT
                     !.processed = @ + iterResult.processed,
                     !.resolved = @ + iterResult.resolved,
                     !.rejected = @ + iterResult.rejected,
                     !.needsReview = @ + iterResult.needsReview,
                     !.errors = @ + iterResult.errors]
  /\ iterationsRun' = iterationsRun + 1
  /\ pipePc' = "recheck"
  /\ UNCHANGED <<threadStates, remoteOpen, pipeArgs, prMeta, iteration, batch, analysis,
                 commitSha, ciResult, commits, reverted, iterResult, iterCalls,
                 polling>>
  /\ UNCHANGED <<workTree, commitFiles>>

\* A loop that never leaves before its budget is used.
AllResolvedNever(open) == FALSE

\* `if (codeRabbitThreads.length === 0) break;`
AllResolved(open) == open = {}

\* run() lists the unresolved threads again: it stops when none is left;
\* before another iteration it starts polling for updates and waits.
Recheck(fetched) ==
  /\ pipePc = "recheck"
  /\ IF ~fetched
     THEN RunThrows /\ UNCHANGED <<iteration, polling>>
     ELSE /\ UNCHANGED runResult
          /\ IF AllResolved(remoteOpen)
             THEN pipePc' = "finally" /\ UNCHANGED <<iteration, polling>>
             ELSE /\ iteration' = iteration + 1
                  /\ polling' = IF iteration < pipeArgs.maxIterations THEN TRUE ELSE polling
                  /\ pipePc' = IF iteration' <= pipeArgs.maxIterations THEN "fetch" ELSE "finally"
  /\ UNCHANGED <<threadStates, remoteOpen, pipeArgs, prMeta, batch, analysis, commitSha,
                 ciResult, commits, reverted, iterResult, iterationsRun, iterCalls>>
  /\ UNCHANGED <<workTree, commitFiles>>

\* A stopPolling() that leaves the interval registered.
StopPollingKeeps(registered) == registered

\* stopPolling(repo, prNumber): clearInterval and delete the entry of the key
\* from pollingIntervals, if there is one; whether an interval is registered
\* for the key afterwards.
StopPolling(registered) == FALSE

\* The finally block of run(): stopPolling(), then the result is returned.
RunFinally ==
  /\ pipePc = "finally"
  /\ polling' = StopPolling(polling)
  /\ pipePc' = "done"
  /\ UNCHANGED <<threadStates, remoteOpen, pipeArgs, prMeta, iteration, batch, analysis,
                 commitSha, ciResult, commits, reverted, iterResult, runResult,
                 iterationsRun, iterCalls>>
  /\ UNCHANGED <<workTree, commitFiles>>

PipeNext ==
  \/ \E m \in 1..MaxIterations, dry \in BOOLEAN, mode \in {"internal", "external"} :
       RunCall(m, dry, mode)
  \/ \E meta \in {"open", "draft", "closed", "error"} : Preflight(meta)
  \/ \E ok \in BOOLEAN : ExternalReturn(ok)
  \/ \E ok \in BOOLEAN : IterFetch(ok)
  \/ IterMark
  \/ \E outcomes \in [batch -> AnalysisOutcomes] : IterAnalyze(outcomes)
  \/ \E failed \in SUBSET validFixes : IterApply(failed)
  \/ \E k \in 0..Cardinality(Threads) : k <= Cardinality(validFixes) /\ IterPatchComments(k)
  \/ \E ok \in BOOLEAN : IterCommit(ok)
  \/ IterMarkPushed
  \/ \E r \in CIResults \cup {"error"} : IterWaitCI(r)
  \/ \E k \in 0..Cardinality(Threads), stage \in {"none", "resolve", "comment"} :
       IterResolve(k, stage)
  \/ \E ok \in BOOLEAN : IterRevert(ok)
  \/ IterMarkFailed
  \/ \E k \in 0..Cardinality(Threads) : k <= Cardinality(validFixes) /\ IterFailComments(k)
  \/ \E k \in 0..Cardinality(Threads) : IterComments(k)
  \/ IterEnd
  \/ \E ok \in BOOLEAN : Recheck(ok)
  \/ RunFinally

(***************************************************************************)
(* waitForCheckRuns                                                        *)
(***************************************************************************)
\* The two waitForCheckRuns() of the sources: the one of the agents
\* directory and the one of the client with the acquire()-based limiter.
CiVariants == {"github-api", "part_006"}

\* What one checks.listForRef() call finds: no check run, check runs of which
\* some are not completed, check runs all completed and all successful,
\* skipped or neutral, check runs all completed of which one has another
\* conclusion; or the call throws.
CiObservations == {"none", "running", "passed", "failed", "error"}

CIInit ==
  /\ ciVariant = "github-api"
  /\ ciPc = "idle"
  /\ ciMaxAttempts = 0
  /\ ciAttempt = 0
  /\ hasChecks = FALSE
  /\ ciSeen = <<>>
  /\ ciOutcome = "none"

\* `hasChecks = true` once a listing holds a check run.
HasChecksAfter(flag, obs) == flag \/ obs \in {"running", "passed", "failed"}

\* `data.check_runs.every(run => run.status === 'completed')`: true for a
\* listing without check runs as well.
AllCompleted(obs) == obs \in {"none", "passed", "failed"}

\* `allSuccessful ? 'success' : 'failure'`, every() being true for a listing
\* without check runs.
CompletedResult(obs) == IF obs \in {"none", "passed"} THEN "success" ELSE "failure"

\* The result after the loop ran out of attempts.
ExhaustedResult(variant, flag) ==
  IF variant = "github-api"
  THEN (IF flag THEN "timeout" ELSE "no_checks_found")
  ELSE (IF flag THEN "timed_out" ELSE "null")

\* waitForCheckRuns(repo, commitSha, maxAttempts, waitInterval) is called.
CiCall(variant, maxAttempts) ==
  /\ ciPc = "idle"
  /\ ciVariant' = variant
  /\ ciMaxAttempts' = maxAttempts
  /\ ciAttempt' = 0
  /\ hasChecks' = FALSE
  /\ ciPc' = "loop"
  /\ UNCHANGED <<ciSeen, ciOutcome>>

\* One pass of the loop: listForRef() answers obs; the call throws, returns
\* the result of completed check runs, or sleeps waitInterval.
CiPoll(obs) ==
  /\ ciPc = "loop"
  /\ ciAttempt < ciMaxAttempts
  /\ ciSeen' = Append(ciSeen, obs)
  /\ IF obs = "error"
     THEN /\ ciPc' = "returned"
          /\ ciOutcome' = "threw"
          /\ UNCHANGED hasChecks
     ELSE /\ hasChecks' = HasChecksAfter(hasChecks, obs)
          /\ IF hasChecks' /\ AllCompleted(obs)
             THEN ciPc' = "returned" /\ ciOutcome' = CompletedResult(obs)
             ELSE ciPc' = "sleeping" /\ UNCHANGED ciOutcome
  /\ UNCHANGED <<ciVariant, ciMaxAttempts, ciAttempt>>

\* The sleep ends: attempt++.
CiWake ==
  /\ ciPc = "sleeping"
  /\ ciAttempt' = ciAttempt + 1
  /\ ciPc' = "loop"
  /\ UNCHANGED <<ciVariant, ciMaxAttempts, hasChecks, ciSeen, ciOutcome>>

\* The loop condition `attempt < maxAttempts` fails: the call returns.
CiExhausted ==
  /\ ciPc = "loop"
  /\ ciAttempt >= ciMaxAttempts
  /\ ciPc' = "returned"
  /\ ciOutcome' = ExhaustedResult(ciVariant, hasChecks)
  /\ UNCHANGED <<ciVariant, ciMaxAttempts, ciAttempt, hasChecks, ciSeen>>

CINext ==
  \/ \E variant \in CiVariants, m \in 0..MaxCiAttempts : CiCall(variant, m)
  \/ \E obs \in CiObservations : CiPoll(obs)
  \/ CiWake
  \/ CiExhausted

(***************************************************************************)
(* Specifications                                                          *)
(***************************************************************************)
\* Every component freshly constructed, the rate limiter with its default
\* configuration.
Init ==
  /\ RLInit({DefaultRateLimitConfig}) /\ PoolInit /\ BusInit /\ WFInit /\ PipeInit({Threads})
  /\ ClientInit({"waitForLimit"}) /\ SMInit /\ CIInit /\ FanInit

\* The rate limiter under concurrent acquire()/endRequest() callers.
InitRL ==
  /\ RLInit(RLConfigs) /\ PoolInit /\ BusInit /\ WFInit /\ PipeInit({Threads})
  /\ ClientInit({"waitForLimit"}) /\ SMInit /\ CIInit /\ FanInit

SpecRL == InitRL /\ [][RLNext /\ UNCHANGED <<poolVars, busVars, wfVars, pipeVars, clVars, smVars, ciVars, fanVars>>]_vars

\* The review-API client in front of the rate limiter, in either of its
\* postComment() bodies.
InitClient ==
  /\ RLInit({ClientRateLimitConfig}) /\ PoolInit /\ BusInit /\ WFInit /\ PipeInit({Threads})
  /\ ClientInit(ClientVariants) /\ SMInit /\ CIInit /\ FanInit

SpecClient ==
  InitClient /\ [][ClientNext /\ UNCHANGED <<poolVars, busVars, wfVars, pipeVars, smVars, ciVars, fanVars>>]_vars

\* The worker pool under acquire()/release() callers.
SpecPool == Init /\ [][PoolNext /\ UNCHANGED <<rlVars, busVars, wfVars, pipeVars, clVars, smVars, ciVars, fanVars>>]_vars

\* The message bus under send()/request()/respond() callers and timeouts.
NextBus == BusNext /\ UNCHANGED <<rlVars, poolVars, wfVars, pipeVars, clVars, smVars, ciVars, fanVars>>

SpecBus == Init /\ [][NextBus]_vars

\* The same, with every armed timeout eventually firing (setTimeout).
SpecBusFair == SpecBus /\ \A r \in MessageIds : WF_vars(TimeoutFires(r) /\ UNCHANGED <<rlVars, poolVars, wfVars, pipeVars, clVars, smVars, ciVars, fanVars>>)

\* The message bus of a long-running process whose log is two messages short
\* of its capacity.
InitBusLog ==
  /\ RLInit({DefaultRateLimitConfig}) /\ PoolInit /\ BusInitWith({NearlyFullLog}) /\ WFInit
  /\ PipeInit({Threads})
  /\ ClientInit({"waitForLimit"}) /\ SMInit /\ CIInit /\ FanInit

SpecBusLog == InitBusLog /\ [][BusLogNext /\ UNCHANGED <<rlVars, poolVars, wfVars, pipeVars, clVars, smVars, ciVars, fanVars>>]_vars

\* The message bus with subscribed handlers that may throw or reject.
SpecBusSub == Init /\ [][BusSubNext /\ UNCHANGED <<rlVars, poolVars, wfVars, pipeVars, clVars, smVars, ciVars, fanVars>>]_vars

\* The fan-out of an orchestrator: tasks enter the queue, start and finish.
SpecFanout == Init /\ [][FanNext /\ UNCHANGED <<rlVars, busVars, wfVars, pipeVars, clVars, smVars, ciVars>>]_vars

\* One waitForCheckRuns() call against any sequence of listings.
SpecCI == Init /\ [][CINext /\ UNCHANGED <<rlVars, poolVars, busVars, wfVars, pipeVars, clVars, smVars, fanVars>>]_vars

\* The interactive workflow under arbitrary tool calls.
SpecWF == Init /\ [][WFNext /\ UNCHANGED <<rlVars, poolVars, busVars, pipeVars, clVars, smVars, ciVars, fanVars>>]_vars

\* The interactive workflow under a caller that follows its instructions and
\* keeps calling while a tool is named.
NextWFFollow == WFFollowNext /\ UNCHANGED <<rlVars, poolVars, busVars, pipeVars, clVars, smVars, ciVars, fanVars>>

SpecWFFollow == Init /\ [][NextWFFollow]_vars /\ WF_vars(NextWFFollow)

\* The worker pool constructed with or without workers, the 100 ms timer of
\* a sleeping drain() eventually firing (setTimeout).
InitPoolAny ==
  /\ RLInit({DefaultRateLimitConfig}) /\ PoolInitWith(WorkerLists) /\ BusInit /\ WFInit
  /\ PipeInit({Threads})
  /\ ClientInit({"waitForLimit"}) /\ SMInit /\ CIInit /\ FanInit

NextPool == PoolNext /\ UNCHANGED <<rlVars, busVars, wfVars, pipeVars, clVars, smVars, ciVars, fanVars>>

SpecPoolAny == InitPoolAny /\ [][NextPool]_vars /\ WF_vars(DrainWake /\ NextPool)

\* The StateManager under concurrent callers and subscribed listeners.
NextSM == SMNext /\ UNCHANGED <<rlVars, poolVars, busVars, wfVars, pipeRunVars, clVars, ciVars, fanVars>>

SpecSM == Init /\ [][NextSM]_vars

\* The same, with every call that holds the lock eventually resuming.
SpecSMFair ==
  SpecSM /\ \A c \in SmCallers :
              WF_vars(SmRun(c) /\ UNCHANGED <<rlVars, poolVars, busVars, wfVars, pipeRunVars, clVars, ciVars, fanVars>>)

\* The orchestration pipeline: one run() over the thread state manager.
InitPipe ==
  /\ RLInit({DefaultRateLimitConfig}) /\ PoolInit /\ BusInit /\ WFInit
  /\ PipeInit(SUBSET Threads)
  /\ ClientInit({"waitForLimit"}) /\ SMInit /\ CIInit /\ FanInit

SpecPipe == InitPipe /\ [][PipeNext /\ UNCHANGED <<rlVars, poolVars, busVars, wfVars, clVars, smVars, ciVars, fanVars>>]_vars

\* The same, where every call run() awaits returns or throws.
SpecPipeFair ==
  SpecPipe /\ WF_vars(PipeNext /\ UNCHANGED <<rlVars, poolVars, busVars, wfVars, clVars, smVars, ciVars, fanVars>>)

(***************************************************************************)
(* Properties                                                              *)
(***************************************************************************)

\* C1: under any interleaving of acquire() and endRequest() calls, the
\* reservations recorded within the 60 seconds that end at any reservation
\* (the fullest trailing windows) never exceed maxRequestsPerMinute, the
\* in-flight counter never exceeds maxConcurrent, and with
\* maxRequestsPerMinute = 1 consecutive reservations are at least 60 s apart.
RateLimiterSafety ==
  /\ concurrentRequests <= rlConfig.maxConcurrent
  /\ \A i \in 1..Len(rlReserved) :
       Cardinality({j \in 1..Len(rlReserved) :
                      /\ rlReserved[j] > rlReserved[i] - MinuteMs
                      /\ rlReserved[j] <= rlReserved[i]})
         <= rlConfig.maxRequestsPerMinute
  /\ rlConfig.maxRequestsPerMinute = 1 =>
       \A i \in 1..(Len(rlReserved) - 1) : rlReserved[i + 1] - rlReserved[i] >= MinuteMs

\* C1 witness: with maxRequestsPerMinute = 1 a second reservation has been
\* recorded while the first request is still in flight.
RateLimiterSafetyWitness ==
  /\ rlConfig.maxRequestsPerMinute = 1
  /\ Len(rlReserved) >= 2
  /\ concurrentRequests = 2

\* C4: the first K acquire() calls against a pool of K workers return at
\* once, calls obtain workers in the order in which they were issued (no
\* waiter is overtaken), and release() serves at most one waiter per call.
PoolFairness ==
  /\ \A t \in 1..Min(PoolSize, poolAcquires) : t \in poolImmediate
  /\ \A i, j \in 1..Len(poolGrantOrder) : i < j => poolGrantOrder[i] < poolGrantOrder[j]
  /\ \A c \in PoolCallers : poolTicket[c] # 0 =>
       \A i \in 1..Len(poolGrantOrder) : poolGrantOrder[i] < poolTicket[c]
  /\ poolHandoffs <= poolReleases
  /\ Len(poolGrantOrder) = Cardinality(poolImmediate) + poolHandoffs

\* C4 witness: two queued acquire() calls have both been served by release().
PoolFairnessWitness ==
  /\ poolHandoffs >= 2
  /\ Len(waiting) >= 1

CorrelationOnly ==
  /\ [](\A r \in MessageIds :
          busRequests[r].status = "resolved" => busRequests[r].settledBy = r)
  /\ [][\A r \in MessageIds :
          busRequests[r].status = "rejected" =>
            /\ busRequests'[r].status = "rejected"
            /\ busRequests'[r].settles = busRequests[r].settles]_vars

\* C5 witness: a pending request saw an unrelated response on its channel and
\* was later resolved by its own, and a rejected request saw a late response.
CorrelationOnlyWitness ==
  /\ \E r \in MessageIds :
       busRequests[r].status = "resolved" /\ busRequests[r].unrelated >= 1
  /\ \E r \in MessageIds :
       busRequests[r].status = "rejected" /\ busRequests[r].late >= 1

\* A request is registered (pending entry, responseHandler, armed timer)
\* exactly while its promise is pending, and it is settled by one call.
RequestRegistration ==
  \A r \in MessageIds :
    LET registered == /\ r \in pendingResponses
                      /\ r \in busListeners[busRequests[r].source]
                      /\ r \in busTimers
        deregistered == /\ r \notin pendingResponses
                        /\ \A a \in Agents : r \notin busListeners[a]
                        /\ r \notin busTimers
    IN  /\ busRequests[r].status = "pending" => registered /\ busRequests[r].settles = 0
        /\ busRequests[r].status \in {"resolved", "rejected"} =>
             deregistered /\ busRequests[r].settles = 1
        /\ busRequests[r].status = "none" => deregistered

\* C10: every request settles exactly once, by its matching response or by
\* its timeout, never stays pending forever, and once settled has neither a
\* pendingResponses entry nor a listener left.
RequestSettlesOnce ==
  /\ []RequestRegistration
  /\ \A r \in MessageIds :
       (busRequests[r].status = "pending") ~> (busRequests[r].status \in {"resolved", "rejected"})

\* C10 witness: one request was resolved and another was rejected by timeout.
RequestSettlesOnceWitness ==
  /\ \E r \in MessageIds : busRequests[r].status = "resolved"
  /\ \E r \in MessageIds : busRequests[r].status = "rejected"
  /\ \E r \in MessageIds : busRequests[r].status = "pending"

TerminalStatuses == {"resolved", "rejected", "needs_review", "ci_failed"}

\* C2: over every run of the pipeline no thread's status goes from pending
\* (or from having no entry yet) directly to resolved or rejected, and a
\* thread is set to ci_failed only when its status just before was pushed.
ThreadStateLegal ==
  [][\A t \in Threads :
       /\ threadStates[t].status \in {"absent", "pending"}
            => threadStates'[t].status \notin {"resolved", "rejected"}
       /\ (threadStates'[t].status = "ci_failed" /\ threadStates'[t] # threadStates[t])
            => threadStates[t].status = "pushed"]_vars

\* A thread has been marked ci_failed while another thread of the same batch,
\* not part of the commit, is still processing.
ThreadStateLegalWitness ==
  \E t, u \in Threads :
    /\ threadStates[t].status = "ci_failed"
    /\ threadStates[u].status = "processing"
    /\ u \in batch

\* C3: when CI for the iteration's pushed commit returned failure, at the end
\* of the iteration the commit is reverted, every thread of the commit is
\* ci_failed with the CI URL of that commit, a failure explanation was posted
\* on each, none was resolved remotely and the iteration counts 0 resolved.
CIFailureRollsBack ==
  (pipePc = "iterEnd" /\ ciResult = "failure") =>
    /\ commitSha \in reverted
    /\ iterResult.resolved = 0
    /\ \A t \in validFixes :
         /\ threadStates[t].status = "ci_failed"
         /\ threadStates[t].ciRunUrl = commitSha
         /\ t \in iterCalls.ciFailure
         /\ t \notin iterCalls.resolve

\* The status the State Manager should hold for a thread at the end of the
\* iteration, by its outcome.
ExpectedStatus(t) ==
  CASE analysis[t] = "invalid" -> {"rejected"}
    [] analysis[t] \in {"needs_review", "unpatchable"} -> {"needs_review"}
    [] analysis[t] = "valid" /\ (ciResult = "success" \/ pipeArgs.dryRun) -> {"resolved"}
    [] analysis[t] = "valid" /\ ciResult = "failure" -> {"ci_failed"}
    [] OTHER -> TerminalStatuses

\* C6: at the end of every iteration each fetched thread has a terminal
\* status matching its outcome; none is left processing or pushed.
IterationEndsTerminal ==
  pipePc = "iterEnd" =>
    \A t \in batch : threadStates[t].status \in ExpectedStatus(t)

\* The counts and calls of an iteration whose valid fixes went through.
CountsExact(result) ==
  /\ result.processed = Cardinality(batch)
  /\ result.resolved = Cardinality(validFixes)
  /\ result.rejected = Cardinality(invalidThreads)
  /\ result.needsReview = Cardinality(needsReviewThreads)
  /\ iterCalls.resolve = validFixes
  /\ iterCalls.explain = invalidThreads \cup needsReviewThreads

\* Every fetched thread was classified valid, invalid, needs-review or
\* unpatchable, and patching, commit and CI succeeded.
AllSucceeded ==
  /\ WithOutcome({"failed"}) = {}
  /\ ciResult = "success"

ApplyDefersPush ==
  [][/\ (wfLastOp' = "apply" /\ wfOps' = wfOps + 1)
          => (wfPushes' = wfPushes /\ wfResolves' = wfResolves)
     /\ (wfPushes' # wfPushes \/ wfResolves' # wfResolves)
          => (wfExists /\ currentIndex >= Len(wfThreads))]_vars

(***************************************************************************)
(* Properties of the review-API client                                     *)
(***************************************************************************)
\* C12: every remote request of the client holds capacity obtained from the
\* rate limiter and goes out while the limiter is in no backoff window and
\* within its concurrency and window limits, and every finished call has
\* reported its completion to the limiter.
ClientCallsLimited ==
  /\ clIssued.kind # "none" => (clIssued.reserved /\ clIssued.open)
  /\ clDone.kind # "none" => clDone.reported

\* C13: once a failure with a retry-after signal of m minutes and s seconds
\* has been handled, the backoff window ends (60m+s) seconds after it.
SignalOverridesBackoff ==
  clFailure.signalled =>
    clFailure.until = clFailure.at + (clFailure.minutes * 60 + clFailure.seconds) * 1000

(***************************************************************************)
(* Properties of the StateManager                                          *)
(***************************************************************************)
\* C14: at most one StateManager call holds the mutex at any time, and no
\* update is lost: every thread's attempts equals the number of completed
\* markThreadsAsProcessing calls that named it.
MutexSerializes ==
  /\ Cardinality(smHolders) <= 1
  /\ \A t \in Threads : threadStates[t].attempts = smMarked[t]

\* Two markThreadsAsProcessing calls on one thread were in progress together
\* and both have completed.
MutexSerializesWitness ==
  /\ smOverlap
  /\ \E t \in Threads : smMarked[t] = 2 /\ threadStates[t].attempts = 2
  /\ \A c \in SmCallers : smOp[c] = NoOp

ResetCancels ==
  /\ poolLastOp = "reset" =>
       /\ busy = {}
       /\ waiting = <<>>
       /\ \A w \in poolLastReset.busy : \E i \in 1..Len(available) : available[i] = w
       /\ \A i \in 1..Len(poolLastReset.waiting) : poolLastReset.waiting[i] \in poolCancelled
  /\ \A t \in poolCancelled :
       /\ \A i \in 1..Len(poolGrantOrder) : poolGrantOrder[i] # t
       /\ \A c \in PoolCallers : poolTicket[c] # t

\* A reset() found a busy worker and a waiting acquire(), and a call issued
\* after the rejected one has obtained a worker since.
ResetCancelsWitness ==
  /\ poolLastReset.busy # {}
  /\ \E t \in poolCancelled : \E i \in 1..Len(poolGrantOrder) : poolGrantOrder[i] > t

\* C17: drain() returns only when busy and waiting are both empty, throws
\* when the pool has no worker at all while an acquire() waits and never
\* sleeps in a pool without workers, and a sleeping drain() returns once busy
\* and waiting are empty.
DrainTerminates ==
  /\ []((poolDrain = "returned" /\ poolLastOp = "drain") => (busy = {} /\ waiting = <<>>))
  /\ [](poolDrain = "threw" => (poolDrainSaw.total = 0 /\ poolDrainSaw.waiting > 0))
  /\ []((poolLastOp = "drain" /\ Len(available) + Cardinality(busy) = 0 /\ waiting # <<>>)
          => poolDrain = "threw")
  /\ [](Len(available) + Cardinality(busy) = 0 => poolDrain # "sleeping")
  /\ (poolDrain = "sleeping" /\ busy = {} /\ waiting = <<>>)
       ~> (poolDrain = "returned" \/ busy # {} \/ waiting # <<>>)

\* drain() has thrown in a pool without workers where an acquire() waits.
DrainTerminatesWitness ==
  /\ poolDrain = "threw"
  /\ available = <<>>
  /\ busy = {}
  /\ Len(waiting) >= 1

(***************************************************************************)
(* Properties of the subscribers and the log of the message bus            *)
(***************************************************************************)
\* C18: a handler registered with subscribe() that throws or rejects is
\* caught and re-emitted as an 'error' event (a rejection once the awaited
\* promise settles), send() never raises to its caller, and every subscriber
\* of a target receives every message emitted on it after it subscribed.
SubscriberFailureContained ==
  /\ ~busSendRaised
  /\ busErrorEvents + busRejections = busFailures
  /\ \A a \in Agents : \A i \in 1..Len(busSubscribers[a]) :
       busSubscribers[a][i].missed = 0

\* A failing handler subscribed before a healthy one on the same channel;
\* two messages later the healthy one has received both and both failures
\* were emitted as 'error' events.
SubscriberFailureContainedWitness ==
  \E a \in Agents :
    /\ Len(busSubscribers[a]) = 2
    /\ busSubscribers[a][1].kind = "throws"
    /\ busSubscribers[a][2].kind = "ok"
    /\ busSubscribers[a][2].received >= 2
    /\ busErrorEvents >= 2

\* C19: every message created by send(), request() or respond() is in
\* messageLog (the log holds fewer than MAX_MESSAGE_LOG_SIZE messages here,
\* so none has been dropped).
EveryMessageLogged ==
  \A id \in 1..(busNextId - 1) : \E i \in 1..Len(messageLog) : messageLog[i].id = id

(***************************************************************************)
(* Properties of the pre-flight check of run()                             *)
(***************************************************************************)
\* C20: when pre-flight finds the pull request draft or closed, run() goes
\* to its end with success = false and one error message, runs no
\* iteration, and leaves every thread state, the commits and the posted
\* comments and resolutions as they were.
PreflightRejects ==
  prMeta \in {"draft", "closed"} =>
    /\ pipePc \in {"finally", "done"}
    /\ ~runResult.success
    /\ runResult.errors = 1
    /\ runResult.processed = 0
    /\ iteration = 0
    /\ iterationsRun = 0
    /\ threadStates = [t \in Threads |-> NoThreadState]
    /\ batch = {}
    /\ analysis = [t \in Threads |-> "none"]
    /\ commitSha = 0
    /\ commits = {}
    /\ reverted = {}
    /\ iterCalls = NoCalls

\* run() has returned for a draft pull request that has unresolved threads.
PreflightRejectsWitness ==
  /\ prMeta = "draft"
  /\ pipePc = "done"
  /\ remoteOpen # {}
  /\ pipeArgs.validationMode = "internal"

(***************************************************************************)
(* Properties of the fan-out of an iteration                               *)
(***************************************************************************)
\* C21: the collection step counts every thread of the batch in processed,
\* adds one error per analysis that rejected, counts the other threads by
\* their classification and goes on to the apply step (valid fixes, no dry
\* run) or the comment step; an iteration whose only errors are rejected
\* analyses explains every invalid and needs-review thread and, after CI
\* succeeded, resolves every valid one.
AnalysisFailureContained ==
  /\ [][(pipePc = "analyze" /\ pipePc' # "analyze") =>
          /\ iterResult'.processed = iterResult.processed + Cardinality(batch)
          /\ iterResult'.errors = iterResult.errors + Cardinality(WithOutcome({"failed"}))'
          /\ iterResult'.rejected = iterResult.rejected + Cardinality(invalidThreads)'
          /\ iterResult'.needsReview = iterResult.needsReview + Cardinality(needsReviewThreads)'
          /\ pipePc' = IF validFixes' # {} /\ ~pipeArgs.dryRun THEN "apply" ELSE "comments"]_vars
  /\ []((/\ pipePc = "iterEnd"
          /\ ~pipeArgs.dryRun
          /\ WithOutcome({"failed"}) # {}
          /\ iterResult.errors = Cardinality(WithOutcome({"failed"})))
         => /\ iterCalls.explain = invalidThreads \cup needsReviewThreads
            /\ ciResult = "success" => iterCalls.resolve = validFixes)

\* An iteration ended in which one analysis rejected and the valid fix of the
\* other thread was pushed and its thread resolved.
AnalysisFailureContainedWitness ==
  /\ pipePc = "iterEnd"
  /\ WithOutcome({"failed"}) # {}
  /\ validFixes # {}
  /\ iterCalls.resolve = validFixes
  /\ iterResult.processed = 2
  /\ iterResult.errors = 1

(***************************************************************************)
(* Properties of the loop of run()                                         *)
(***************************************************************************)
\* C22: once run() has returned, whichever way it ended, the monitor has no
\* polling interval registered for the pull request.
NoPollingAfterRun ==
  pipePc = "done" => ~polling

\* run() started polling after its first iteration and returned after an
\* exception in the second round.
NoPollingAfterRunWitness ==
  /\ pipePc = "done"
  /\ iterationsRun = 2
  /\ ~runResult.success

(***************************************************************************)
(* Properties of the CI wait                                               *)
(***************************************************************************)
\* C23: waitForCheckRuns() lists the check runs at most maxAttempts times,
\* and when it returns after listings that held check runs but never all of
\* them completed, its result is timed_out.
CiWaitTimesOut ==
  /\ Len(ciSeen) <= ciMaxAttempts
  /\ (/\ ciPc = "returned"
      /\ ciOutcome # "threw"
      /\ \E i \in 1..Len(ciSeen) : ciSeen[i] = "running"
      /\ \A i \in 1..Len(ciSeen) : ciSeen[i] \notin {"passed", "failed"})
     => ciOutcome = "timed_out"

\* C24: run() executes at most maxIterations iterations and returns; when the
\* listing after an iteration holds no unresolved thread the loop is left at
\* once with success still true, so a successful run that used less than its
\* budget left no thread unresolved.
RunBounded ==
  /\ [](iterationsRun <= pipeArgs.maxIterations)
  /\ []((/\ pipePc = "done"
          /\ runResult.success
          /\ pipeArgs.validationMode = "internal"
          /\ iterationsRun < pipeArgs.maxIterations)
         => remoteOpen = {})
  /\ [][(pipePc = "recheck" /\ remoteOpen = {} /\ pipePc' # "recheck") =>
          /\ pipePc' = "finally"
          /\ iteration' = iteration
          /\ runResult'.errors = runResult.errors => runResult'.success]_vars
  /\ (pipePc # "idle") ~> (pipePc = "done")

\* A run with a budget of two iterations resolved every thread in the first
\* one and returned without a second one.
RunBoundedWitness ==
  /\ pipePc = "done"
  /\ runResult.success
  /\ pipeArgs.maxIterations = 2
  /\ iterationsRun = 1
  /\ iterCalls.resolve # {}
  /\ remoteOpen = {}

\* C25: in a run with dryRun = true the apply, commit, CI and revert steps are
\* never entered, no commit exists, nothing was reverted, and no thread was
\* resolved remotely or commented on.
DryRunTouchesNothing ==
  pipeArgs.dryRun =>
    /\ pipePc \in {"preflight", "external", "fetch", "mark", "analyze", "comments",
                    "iterEnd", "recheck", "finally", "done"}
    /\ commits = {}
    /\ commitSha = 0
    /\ reverted = {}
    /\ iterCalls = NoCalls

\* A dry-run iteration over a valid and an invalid thread has ended.
DryRunTouchesNothingWitness ==
  /\ pipeArgs.dryRun
  /\ pipePc = "iterEnd"
  /\ validFixes # {}
  /\ invalidThreads # {}
  /\ iterResult.resolved = 1
  /\ iterResult.errors = 0

(***************************************************************************)
(* Properties of the order of the workflow steps                           *)
(***************************************************************************)
\* C26: an apply call commits a fix or advances the workflow only when the
\* current thread has a recorded decision with isValid = true, and a
\* challenge call advances it only when the current thread has a recorded
\* decision with isValid = false.
ApplyAfterValidate ==
  [][/\ (/\ wfLastOp' = "apply"
          /\ wfOps' = wfOps + 1
          /\ (wfCommits' # wfCommits \/ currentIndex' # currentIndex \/ processed' # processed))
         => /\ wfExists
            /\ currentIndex < Len(wfThreads)
            /\ decisions[currentIndex + 1].recorded
            /\ decisions[currentIndex + 1].isValid
     /\ (/\ wfLastOp' = "challenge"
          /\ wfOps' = wfOps + 1
          /\ (currentIndex' # currentIndex \/ processed' # processed))
         => /\ wfExists
            /\ currentIndex < Len(wfThreads)
            /\ decisions[currentIndex + 1].recorded
            /\ ~decisions[currentIndex + 1].isValid]_vars

(***************************************************************************)
(* Properties of the commit of an iteration                                *)
(***************************************************************************)
\* C27: a commit is created only by the commit step of an iteration that has
\* not committed yet, after applyBatch() applied the patch of every valid fix
\* and none failed; an iteration in which a patch failed has no commit and
\* has an error in its result.
OneCommitPerIteration ==
  /\ [][commits' # commits =>
          /\ pipePc = "commit"
          /\ iteration \notin commits
          /\ commits' = commits \cup {iteration}
          /\ validFixes # {}
          /\ iterCalls.applied = validFixes
          /\ iterCalls.failed = {}]_vars
  /\ [](iterCalls.failed # {} => (iteration \notin commits /\ iterResult.errors >= 1))

\* An iteration ended in which one patch applied and another failed.
OneCommitPerIterationWitness ==
  /\ pipePc = "iterEnd"
  /\ iterCalls.applied # {}
  /\ iterCalls.failed # {}
  /\ iterCalls.patchFailure = validFixes

(***************************************************************************)
(* Properties of the fan-out and of the pool's hand-over                   *)
(***************************************************************************)
\* C28: during the fan-out every executing analysis holds a busy analyzer
\* that no other analysis holds, so at most maxAnalyzers analyses execute at
\* the same time, and busy never holds more workers than the pool was built
\* with.
FanoutBounded ==
  /\ Cardinality(FanExecuting) <= FanConcurrency
  /\ Cardinality(busy) <= PoolSize
  /\ \A c \in FanExecuting : poolHeld[c] \in busy
  /\ \A c, d \in FanExecuting : poolHeld[c] = poolHeld[d] => c = d

\* Every analyzer is in use while two more analyses sit in the task queue.
FanoutBoundedWitness ==
  /\ Cardinality(FanExecuting) = FanConcurrency
  /\ Cardinality({c \in PoolCallers : fanState[c] = "queued"}) = 2
  /\ poolReleases >= 1

\* C29: a release() of a busy worker while an acquire() waits hands the
\* worker to the longest-waiting call and leaves available as it was; and
\* whenever the waiting list is non-empty, available is empty.
DirectHandover ==
  /\ [](waiting # <<>> => available = <<>>)
  /\ [][(poolReleases' = poolReleases + 1 /\ waiting # <<>>) =>
          /\ poolHandoffs' = poolHandoffs + 1
          /\ available' = available
          /\ waiting' = Tail(waiting)
          /\ poolHeld'[Head(waiting)] \in busy'
          /\ poolGrantOrder' = Append(poolGrantOrder, poolTicket[Head(waiting)])]_vars

\* A worker was handed over while a second acquire() kept waiting.
DirectHandoverWitness ==
  /\ poolHandoffs >= 1
  /\ waiting # <<>>
  /\ poolLastOp = "release"

(***************************************************************************)
(* Properties of the capacity of the message log                           *)
(***************************************************************************)
\* C30: the message log never holds more than MAX_MESSAGE_LOG_SIZE messages;
\* an append puts the new message last, and when the log was full it removes
\* the oldest message and keeps the others in order.
LogBounded ==
  /\ [](Len(messageLog) <= MAX_MESSAGE_LOG_SIZE)
  /\ [][messageLog' # messageLog =>
          /\ messageLog'[Len(messageLog')].id = busNextId
          /\ SubSeq(messageLog', 1, Len(messageLog') - 1) =
               (IF Len(messageLog) = MAX_MESSAGE_LOG_SIZE
                THEN Tail(messageLog) ELSE messageLog)]_vars

\* The log is full and its two oldest messages have been evicted.
LogBoundedWitness ==
  /\ Len(messageLog) = MAX_MESSAGE_LOG_SIZE
  /\ messageLog[1].id = NearlyFullLog[3].id
  /\ messageLog[Len(messageLog)].id = 4

(***************************************************************************)
(* Properties of the exclusive use of a pooled worker                      *)
(***************************************************************************)
\* C31: under any interleaving of acquire(), release() and reset(), where a
\* caller releases only the worker its acquire() resolved with, no worker is
\* held by two callers at the same time.
ExclusiveCheckout ==
  \A c, d \in PoolCallers :
    (poolHeld[c] # NoWorker /\ poolHeld[c] = poolHeld[d]) => c = d

(***************************************************************************)
(* Properties of concurrent postComment() calls                            *)
(***************************************************************************)
\* C32: under concurrent postComment() calls that gate on waitForLimit()
\* followed by startRequest(), the in-flight counter never exceeds
\* maxConcurrent and no 60-second window that ends at a started request
\* holds more than maxRequestsPerMinute started requests.
PostCommentStartsLimited ==
  clVariant = "waitForLimit" =>
    /\ concurrentRequests <= rlConfig.maxConcurrent
    /\ \A i \in 1..Len(rlReserved) :
         Cardinality({j \in 1..Len(rlReserved) :
                        /\ rlReserved[j] > rlReserved[i] - MinuteMs
                        /\ rlReserved[j] <= rlReserved[i]})
           <= rlConfig.maxRequestsPerMinute

(***************************************************************************)
(* Properties of the iteration's pushed commit                             *)
(***************************************************************************)
\* C33: when an error was raised after the iteration's commit was pushed, the
\* iteration still ends with the commit confirmed by a successful CI result
\* or reverted, and with no thread of the batch left in status pushed.
PushedCommitSettled ==
  (pipePc = "iterEnd" /\ commitSha # 0 /\ iterResult.errors >= 1) =>
    /\ (ciResult = "success" \/ commitSha \in reverted)
    /\ \A t \in batch : threadStates[t].status # "pushed"

\* C34: when CI for the iteration's pushed commit returned anything other than
\* success (failure, timed out or no checks found), at the end of the
\* iteration the commit is reverted and every thread of the commit is
\* ci_failed.
NonSuccessRollsBack ==
  (pipePc = "iterEnd" /\ ciResult \in CIResults \ {"success"}) =>
    /\ commitSha \in reverted
    /\ \A t \in validFixes : threadStates[t].status = "ci_failed"

(***************************************************************************)
(* Properties of the remote resolution of threads                          *)
(***************************************************************************)
\* C35: within run() a thread is resolved remotely only in an iteration whose
\* commit contains the thread's fix and has been pushed, and only after CI
\* for that commit returned success.
ResolveAfterCISuccess ==
  /\ [](iterCalls.resolve # {} =>
          /\ commitSha # 0
          /\ commitSha \in commits
          /\ commitSha \notin reverted
          /\ ciResult = "success"
          /\ iterCalls.resolve \subseteq iterCalls.applied)
  /\ [][remoteOpen' # remoteOpen =>
          /\ pipePc = "resolve"
          /\ ciResult = "success"
          /\ commitSha \in commits
          /\ (remoteOpen \ remoteOpen') \subseteq iterCalls.applied
          /\ iterCalls'.resolve = remoteOpen \ remoteOpen']_vars

\* Both threads of a pushed commit were resolved after CI succeeded.
ResolveAfterCISuccessWitness ==
  /\ pipePc = "iterEnd"
  /\ ciResult = "success"
  /\ iterCalls.resolve = Threads
  /\ remoteOpen = {}

(***************************************************************************)
(* Properties of the mark operations of the StateManager                   *)
(***************************************************************************)
\* C36: a mark operation changes a thread's entry only along the status
\* table: to processing from pending (or from no entry), to pushed from
\* processing, to ci_failed from pushed; a thread in any other status is left
\* unchanged.
MarksFollowTable ==
  [][\A t \in Threads :
       threadStates'[t] # threadStates[t] =>
         \/ /\ threadStates'[t].status = "processing"
            /\ threadStates[t].status \in {"absent", "pending"}
         \/ /\ threadStates'[t].status = "pushed"
            /\ threadStates[t].status = "processing"
         \/ /\ threadStates'[t].status = "ci_failed"
            /\ threadStates[t].status = "pushed"]_vars

(***************************************************************************)
(* Properties of the content of a pushed commit                            *)
(***************************************************************************)
\* C37: a commit created by an iteration contains exactly the patches of that
\* iteration's valid batch; no file change written by an earlier batch whose
\* apply step failed part-way is included in it.
CommitHoldsOwnBatch ==
  /\ \A r \in commitFiles : r.iteration = r.commit
  /\ pipePc = "markPushed" =>
       {r.thread : r \in {q \in commitFiles : q.commit = commitSha}} = validFixes

(***************************************************************************)
(* Properties of the progress of the workflow                              *)
(***************************************************************************)
\* C38: after any sequence of workflow operations the processed counter equals
\* currentIndex and never exceeds threads.length, the reported remaining
\* count is never negative and percentComplete never exceeds 100.
ProgressConsistent ==
  /\ wfExists => (processed = currentIndex /\ processed <= Len(wfThreads))
  /\ GetProgress.remaining >= 0
  /\ GetProgress.percentComplete <= 100

(***************************************************************************)
(* Properties of a failed validate call                                    *)
(***************************************************************************)
\* C39: a validate call that fails, because no workflow was started or
\* because the thread id is not in the workflow's thread list, leaves the
\* workflow state unchanged; the decisions map only ever holds ids of threads
\* of the workflow's list.
FailedValidateKeepsState ==
  /\ [](\A t \in WfThreadIds : decisions[t].recorded => t \in 1..Len(wfThreads))
  /\ [][(wfLastOp' = "validate" /\ wfOps' = wfOps + 1 /\ wfReport' = "error") =>
          UNCHANGED <<wfExists, wfThreads, currentIndex, processed, decisions>>]_vars

(***************************************************************************)
(* Properties of a caller that follows the workflow's instructions         *)
(***************************************************************************)
\* C40: a caller that follows the next_tool instructions from start on
\* eventually reaches the complete step (or has used up its calls), and
\* carrying out an instructed resolve step moves currentIndex past the
\* thread.
FollowerCompletes ==
  /\ [][(wfLastOp' = "resolve" /\ wfOps' = wfOps + 1 /\ wfReport' # "error") =>
          currentIndex' = currentIndex + 1]_vars
  /\ wfExists ~> (wfReport = "complete" \/ wfOps = MaxWfOps)

====
